---- MODULE Spec2Model ----
(***************************************************************************)
(* The filtered-data pipeline of esa-forecast-manager: the filter state    *)
(* store (FilterContext), query fingerprinting (generateQueryHash), the    *)
(* result cache (dataCache, cleanCache), the client-side evaluator         *)
(* (filterForecastsClientSide), the server path (buildDynamicQuery,        *)
(* getAdvancedForecasts) and the orchestrator hook (useFilteredData).      *)
(***************************************************************************)
EXTENDS Integers, Sequences, FiniteSets, TLC

VARIABLES
    filters,            \* FilterContext: useState<FilterQuery>
    dataTypeSelection,  \* FilterContext: useState<DataTypeSelection>
    storeOp,            \* the last FilterContext operation and its argument
    hashA, hashB,       \* two FilterQuery objects handed to generateQueryHash
    hashOut,            \* <<generateQueryHash(hashA), generateQueryHash(hashB)>>
    evalRows,           \* the rows of the forecasts table (with their joins)
    evalQuery,          \* the FilterQuery handed to both evaluators
    evalOut,            \* the results of the client-side and the server path
    statsArgs,          \* the arguments of a call of useFilterStats
    statsOut,           \* what the call returned or threw
    config,             \* useFilteredData: enableCache, enableServerSideFiltering
    now,                \* Date.now()
    timers,             \* the pending debounce timeouts, each with its callback
    lastQueryRef,       \* useFilteredData: lastQueryRef.current
    loading,            \* useFilteredData: useState(false)
    error,              \* useFilteredData: useState<string | null>(null)
    statistics,         \* useFilteredData: useState<any>(null)
    dataCache,          \* the module's Map, its entries in insertion order
    inflight,           \* the executions suspended at an await
    burst,              \* history: the current burst of filter changes
    lastQuery,          \* history: the query of the last started execution
    latestOut,          \* history: what the newest execution published
    lastLookup,         \* history: the last cache lookup of executeFiltering
    returned,           \* history: how the last finished execution ended
    refetches,          \* history: the number of calls of refetch
    observe,            \* which of the history variables is kept
    memoData,           \* useFilteredData: filteredData, the memoised data output
    monConfig,          \* usePerformanceMonitor: fullConfig
    isMonitoring,       \* usePerformanceMonitor: useState(enableMonitoring)
    perfNow,            \* performance.now()
    renderStartTime,    \* usePerformanceMonitor: renderStartTime.current
    filterStartTime,    \* usePerformanceMonitor: filterStartTime.current
    queryStartTime,     \* usePerformanceMonitor: queryStartTime.current
    metricsHistory,     \* usePerformanceMonitor: metricsHistory.current
    historyTimer,       \* usePerformanceMonitor: the throttle timeout is pending
    metrics,            \* usePerformanceMonitor: useState<PerformanceMetrics>
    alerts,             \* usePerformanceMonitor: useState<PerformanceAlert[]>
    monOp,              \* history: the last call of the monitor and its outcome
    allItems,           \* useLazyLoading: the collection handed to the hook
    lazyEnabled,        \* useLazyLoading: options.enabled
    pageSize,           \* useLazyLoading: options.pageSize
    currentPage,        \* useLazyLoading: useState(0)
    lazyLoading,        \* useLazyLoading: useState(false)
    loadingRef,         \* useLazyLoading: loadingRef.current
    loadTimers,         \* useLazyLoading: the pending timeouts of loadMore
    lazyOp              \* history: the last call of useLazyLoading

storeVars == <<filters, dataTypeSelection, storeOp>>
hashVars  == <<hashA, hashB, hashOut>>
evalVars  == <<evalRows, evalQuery, evalOut, statsArgs, statsOut>>
hookVars  == <<config, now, timers, lastQueryRef, loading, error, statistics,
               dataCache, inflight, burst, lastQuery, latestOut, lastLookup,
               returned, refetches, observe, memoData>>
monitorVars == <<monConfig, isMonitoring, perfNow, renderStartTime,
                 filterStartTime, queryStartTime, metricsHistory, historyTimer,
                 metrics, alerts, monOp>>
lazyVars  == <<allItems, lazyEnabled, pageSize, currentPage, lazyLoading, loadingRef,
               loadTimers, lazyOp>>
sideVars  == <<monitorVars, lazyVars>>
vars == <<filters, dataTypeSelection, storeOp, hashA, hashB, hashOut,
          evalRows, evalQuery, evalOut, statsArgs, statsOut, config, now, timers, lastQueryRef,
          loading, error, statistics, dataCache, inflight, burst, lastQuery,
          latestOut, lastLookup, returned, refetches, observe, memoData, monitorVars,
          lazyVars>>

\* bounds of the model
MaxId == 2
MaxRecords == 2
MaxTime == 3
MaxInflight == 2
MaxRefetches == 1
\* the options of the hook, in ticks of the model's clock
DebounceMs == 1
CacheExpiry == 2
MaxCacheSize == 1

(***************************************************************************)
(* JavaScript values.  Every value has the same shape, so that any two     *)
(* values can be compared: t is the type tag, v the payload of a           *)
(* primitive (a number, the character codes of a string, the year, month   *)
(* and day of a Date) and f the own properties of an object in insertion   *)
(* order (the elements of an array, under the key "#").                    *)
(***************************************************************************)
Val(t, v, f) == [t |-> t, v |-> v, f |-> f]
Undefined    == Val("undefined", <<>>, <<>>)
Null         == Val("null", <<>>, <<>>)
Num(n)       == Val("num", <<n>>, <<>>)
Str(s)       == Val("str", s, <<>>)
Bool(b)      == Val("bool", <<IF b THEN 1 ELSE 0>>, <<>>)
DateV(y, m, d) == Val("date", <<y, m, d>>, <<>>)
Prop(k, x)   == <<k, x>>
Obj(props)   == Val("obj", <<>>, props)
Arr(elems)   == Val("arr", <<>>, [i \in 1..Len(elems) |-> Prop("#", elems[i])])

Keys(o)      == [i \in 1..Len(o.f) |-> o.f[i][1]]
KeySet(o)    == {o.f[i][1] : i \in 1..Len(o.f)}
Has(o, k)    == \E i \in 1..Len(o.f) : o.f[i][1] = k
\* o[k]: the value of own property k, undefined when there is none
Get(o, k)    == LET own == SelectSeq(o.f, LAMBDA p : p[1] = k)
                IN  IF own = <<>> THEN Undefined ELSE own[1][2]
Elems(a)     == [i \in 1..Len(a.f) |-> a.f[i][2]]
Length(a)    == Len(a.f)
\* Array.prototype.includes on an array of primitives
Includes(a, x) == \E i \in 1..Len(a.f) : a.f[i][2] = x
\* ToBoolean
Truthy(x)    == CASE x.t \in {"undefined", "null"} -> FALSE
                  [] x.t \in {"num", "bool"}       -> x.v[1] # 0
                  [] x.t = "str"                   -> Len(x.v) > 0
                  [] OTHER                         -> TRUE
\* o[k] = x, keeping the position of an existing key (a new key goes last)
SetProp(o, k, x) ==
    IF Has(o, k)
    THEN Obj([i \in 1..Len(o.f) |-> IF o.f[i][1] = k THEN Prop(k, x) ELSE o.f[i]])
    ELSE Obj(Append(o.f, Prop(k, x)))
\* { ...a, ...b }
RECURSIVE SpreadInto(_, _)
SpreadInto(a, props) ==
    IF props = <<>> THEN a
    ELSE SpreadInto(SetProp(a, Head(props)[1], Head(props)[2]), Tail(props))
Spread(a, b) == SpreadInto(a, b.f)

\* characters are their ASCII codes
ToLowerChar(c)  == IF c >= 65 /\ c <= 90 THEN c + 32 ELSE c
ToLowerCase(s)  == [i \in 1..Len(s) |-> ToLowerChar(s[i])]
IsSpace(c)      == c = 32
RECURSIVE TrimStart(_)
TrimStart(s)    == IF s # <<>> /\ IsSpace(Head(s)) THEN TrimStart(Tail(s)) ELSE s
RECURSIVE TrimEnd(_)
TrimEnd(s)      == IF s # <<>> /\ IsSpace(s[Len(s)])
                   THEN TrimEnd(SubSeq(s, 1, Len(s) - 1)) ELSE s
Trim(s)         == TrimEnd(TrimStart(s))
\* String.prototype.includes
StrIncludes(s, sub) ==
    \E i \in 1..(Len(s) - Len(sub) + 1) : SubSeq(s, i, i + Len(sub) - 1) = sub

(***************************************************************************)
(* FilterContext                                                           *)
(***************************************************************************)
last_modified == <<108,97,115,116,95,109,111,100,105,102,105,101,100>>
desc          == <<100,101,115,99>>

defaultFilters == Obj(<<
    Prop("dateRange", Null),
    Prop("businessUnitIds", Arr(<<>>)),
    Prop("clientIds", Arr(<<>>)),
    Prop("userIds", Arr(<<>>)),
    Prop("statuses", Arr(<<>>)),
    Prop("countries", Arr(<<>>)),
    Prop("budgetRange", Null),
    Prop("forecastRange", Null),
    Prop("declaredBudgetRange", Null),
    Prop("textSearch", Str(<<>>)),
    Prop("limit", Num(100)),
    Prop("offset", Num(0)),
    Prop("orderBy", Str(last_modified)),
    Prop("orderDirection", Str(desc)) >>)

defaultDataTypeSelection == [budget |-> TRUE, forecast |-> TRUE, declaredBudget |-> TRUE]

\* a faulty variant of updateFilters: the offset of the previous state survives
updateFiltersKeepOffset(prev, newFilters) == Spread(prev, newFilters)

\* setFilters(prev => ({...prev, ...newFilters, offset: ...}))
updateFilters(prev, newFilters) ==
    SetProp(Spread(prev, newFilters), "offset",
            IF Get(newFilters, "offset") # Undefined
            THEN Get(newFilters, "offset") ELSE Num(0))

buildQuery(f) == Obj(<<
    Prop("dateRange", Get(f, "dateRange")),
    Prop("businessUnitIds", Get(f, "businessUnitIds")),
    Prop("clientIds", Get(f, "clientIds")),
    Prop("userIds", Get(f, "userIds")),
    Prop("statuses", Get(f, "statuses")),
    Prop("countries", Get(f, "countries")),
    Prop("budgetRange", Get(f, "budgetRange")),
    Prop("forecastRange", Get(f, "forecastRange")),
    Prop("declaredBudgetRange", Get(f, "declaredBudgetRange")),
    Prop("textSearch", Get(f, "textSearch")),
    Prop("limit", Get(f, "limit")),
    Prop("offset", Get(f, "offset")),
    Prop("orderBy", Get(f, "orderBy")),
    Prop("orderDirection", Get(f, "orderDirection")) >>)

(***************************************************************************)
(* Query fingerprinting: JSON.stringify(filters, Object.keys(filters).sort())*)
(* A JSON text is modelled by its sequence of tokens.                      *)
(***************************************************************************)
\* the property names of FilterQuery, DateRange and NumericRange in the order
\* Array.prototype.sort() gives them (UTF-16 code units)
SortedKeyNames == <<"budgetRange", "businessUnitIds", "clientIds", "countries",
    "dateRange", "declaredBudgetRange", "end", "endDate", "forecastRange",
    "limit", "max", "min", "offset", "orderBy", "orderDirection", "start",
    "startDate", "statuses", "textSearch", "userIds">>

\* a faulty variant of SortKeys: the keys stay in insertion order
SortKeysUnsorted(keys) == keys

\* keys.sort()
SortKeys(keys) ==
    SelectSeq(SortedKeyNames, LAMBDA k : \E i \in 1..Len(keys) : keys[i] = k)

Quote(toks) == <<"\"">> \o toks \o <<"\"">>

\* a faulty variant of Omitted: a property whose value is undefined is written
OmittedNever(ser) == FALSE
\* SerializeJSONProperty returned undefined: the property is left out
Omitted(ser) == ser = <<>>

RECURSIVE JSONStringify(_, _)
RECURSIVE SerializeProps(_, _, _, _)
RECURSIVE SerializeElems(_, _, _)
\* SerializeJSONProperty with a property list K (the array replacer); the empty
\* token sequence stands for undefined (the property is left out)
JSONStringify(x, K) ==
    CASE x.t = "undefined" -> <<>>
      [] x.t = "null"      -> <<"null">>
      [] x.t = "num"       -> <<ToString(x.v[1])>>
      [] x.t = "bool"      -> <<IF x.v[1] = 1 THEN "true" ELSE "false">>
      [] x.t = "str"       -> Quote([i \in 1..Len(x.v) |-> ToString(x.v[i])])
      \* Date.prototype.toJSON: the ISO string
      [] x.t = "date"      -> Quote(<<ToString(x.v[1]), "-", ToString(x.v[2]), "-",
                                     ToString(x.v[3]), "T00:00:00.000Z">>)
      [] x.t = "arr"       -> <<"[">> \o SerializeElems(Elems(x), K, TRUE) \o <<"]">>
      [] x.t = "obj"       -> <<"{">> \o SerializeProps(x, K, K, TRUE) \o <<"}">>
\* SerializeJSONObject: the keys are those of the property list, in its order,
\* at every depth
SerializeProps(o, rest, K, first) ==
    IF rest = <<>> THEN <<>>
    ELSE LET k   == Head(rest)
             ser == JSONStringify(Get(o, k), K)
         IN  IF Omitted(ser) THEN SerializeProps(o, Tail(rest), K, first)
             ELSE (IF first THEN <<>> ELSE <<",">>) \o Quote(<<k>>) \o <<":">>
                  \o ser \o SerializeProps(o, Tail(rest), K, FALSE)
\* SerializeJSONArray: an undefined element is written null
SerializeElems(es, K, first) ==
    IF es = <<>> THEN <<>>
    ELSE LET ser == JSONStringify(Head(es), K)
         IN  (IF first THEN <<>> ELSE <<",">>)
             \o (IF ser = <<>> THEN <<"null">> ELSE ser)
             \o SerializeElems(Tail(es), K, FALSE)

generateQueryHash(q) == JSONStringify(q, SortKeys(Keys(q)))

(***************************************************************************)
(* Dates and numbers as the evaluators compare them                        *)
(***************************************************************************)
InvalidDate == Val("date", <<>>, <<>>)
\* new Date(x): a Date or an ISO string gives that instant, undefined gives
\* an Invalid Date
NewDate(x)  == IF x.t = "date" THEN x ELSE InvalidDate
IsValid(d)  == d.v # <<>>
DateOrd(d)  == (d.v[1] * 12 + (d.v[2] - 1)) * 31 + (d.v[3] - 1)
\* d1 < d2 and d1 > d2 on Date objects: false when either is NaN
DateLT(a, b) == IsValid(a) /\ IsValid(b) /\ DateOrd(a) < DateOrd(b)
DateGT(a, b) == DateLT(b, a)
getFullYear(d) == d.v[1]
getMonth(d)    == d.v[2] - 1
\* x || 0
OrZero(x)   == IF Truthy(x) THEN x ELSE Num(0)
\* a < b and a > b on numbers (null counts as 0, undefined as NaN)
IsNumeric(x) == x.t \in {"num", "null"}
NumOf(x)     == IF x.t = "num" THEN x.v[1] ELSE 0
NumLT(a, b)  == IsNumeric(a) /\ IsNumeric(b) /\ NumOf(a) < NumOf(b)
NumGT(a, b)  == NumLT(b, a)

(***************************************************************************)
(* The client-side evaluator, filterForecastsClientSide                    *)
(***************************************************************************)
\* query.dateRange?.start
OptGet(o, k) == IF o.t = "obj" THEN Get(o, k) ELSE Undefined

ClientDateClause(r, q) ==
    LET dr == Get(q, "dateRange") IN
    IF Truthy(OptGet(dr, "start")) /\ Truthy(OptGet(dr, "end"))
    THEN LET forecastDate == NewDate(Get(r, "created_at"))
             startDate    == NewDate(Get(dr, "start"))
             endDate      == NewDate(Get(dr, "end"))
         IN  ~(DateLT(forecastDate, startDate) \/ DateGT(forecastDate, endDate))
    ELSE TRUE

\* a faulty variant of ClientMemberClause: an empty list matches nothing
ClientMemberClauseNoGuard(r, q, qk, rk) ==
    LET list == Get(q, qk) IN
    IF Truthy(list) THEN Includes(list, Get(r, rk)) ELSE TRUE

\* if (query.xs && query.xs.length > 0) { if (!query.xs.includes(forecast.x)) ... }
ClientMemberClause(r, q, qk, rk) ==
    LET list == Get(q, qk) IN
    IF Truthy(list) /\ Length(list) > 0 THEN Includes(list, Get(r, rk)) ELSE TRUE

ClientRangeClause(r, q, qk, rk) ==
    LET range == Get(q, qk) IN
    IF Truthy(range)
    THEN LET value == OrZero(Get(r, rk))
         IN  /\ ~(Get(range, "min") # Undefined /\ NumLT(value, Get(range, "min")))
             /\ ~(Get(range, "max") # Undefined /\ NumGT(value, Get(range, "max")))
    ELSE TRUE

ClientTextClause(r, q) ==
    LET textSearch == Get(q, "textSearch") IN
    IF Truthy(textSearch) /\ Trim(textSearch.v) # <<>>
    THEN LET searchTerm == ToLowerCase(textSearch.v)
             searchableFields == SelectSeq(
                 <<Get(r, "description"), Get(r, "client_name"),
                   Get(r, "business_unit_name"), Get(r, "user_name")>>, Truthy)
         IN  \E i \in 1..Len(searchableFields) :
                 StrIncludes(ToLowerCase(searchableFields[i].v), searchTerm)
    ELSE TRUE

ClientAccepts(r, q) ==
    /\ ClientDateClause(r, q)
    /\ ClientMemberClause(r, q, "businessUnitIds", "business_unit_id")
    /\ ClientMemberClause(r, q, "clientIds", "client_id")
    /\ ClientMemberClause(r, q, "userIds", "user_id")
    /\ ClientMemberClause(r, q, "statuses", "status")
    /\ ClientMemberClause(r, q, "countries", "country")
    /\ ClientRangeClause(r, q, "budgetRange", "budget")
    /\ ClientRangeClause(r, q, "forecastRange", "forecast")
    /\ ClientRangeClause(r, q, "declaredBudgetRange", "declared_budget")
    /\ ClientTextClause(r, q)

filterForecastsClientSide(forecasts, q) ==
    SelectSeq(forecasts, LAMBDA r : ClientAccepts(r, q))

(***************************************************************************)
(* The server path: buildDynamicQuery and getAdvancedForecasts             *)
(***************************************************************************)
Bozza     == <<66,111,122,122,97>>
Approvato == <<65,112,112,114,111,118,97,116,111>>
DefaultLimit == 1000

\* the params object executeFiltering hands to getAdvancedForecasts
AdvancedParams(query, optionsPageSize) == Obj(<<
    Prop("dateRange", Get(query, "dateRange")),
    Prop("businessUnitIds", Get(query, "businessUnitIds")),
    Prop("clientIds", Get(query, "clientIds")),
    Prop("userIds", Get(query, "userIds")),
    Prop("statuses", Get(query, "statuses")),
    Prop("budgetRange", Get(query, "budgetRange")),
    Prop("forecastRange", Get(query, "forecastRange")),
    Prop("declaredBudgetRange", Get(query, "declaredBudgetRange")),
    Prop("countries", Get(query, "countries")),
    Prop("textSearch", Get(query, "textSearch")),
    Prop("limit", IF Truthy(optionsPageSize) THEN optionsPageSize ELSE Num(DefaultLimit)),
    Prop("offset", Num(0)) >>)

\* year and month of params.dateRange.startDate / endDate
ServerStart(params) == NewDate(Get(Get(params, "dateRange"), "startDate"))
ServerEnd(params)   == NewDate(Get(Get(params, "dateRange"), "endDate"))
\* the request is rejected when a year or month is NaN (no integer)
ServerRejects(params) ==
    /\ Truthy(Get(params, "dateRange"))
    /\ ~(IsValid(ServerStart(params)) /\ IsValid(ServerEnd(params)))

\* a faulty variant of ServerDatePredicate: the years strictly between the first
\* and the last are left out
ServerDatePredicateEdges(row, params) ==
    IF Truthy(Get(params, "dateRange"))
    THEN LET startYear  == getFullYear(ServerStart(params))
             startMonth == getMonth(ServerStart(params)) + 1
             endYear    == getFullYear(ServerEnd(params))
             endMonth   == getMonth(ServerEnd(params)) + 1
             year       == Get(row, "year").v[1]
             month      == Get(row, "month").v[1]
         IN  IF startYear = endYear
             THEN year = startYear /\ month >= startMonth /\ month <= endMonth
             ELSE \/ (year = startYear /\ month >= startMonth)
                  \/ (year = endYear /\ month <= endMonth)
    ELSE TRUE

ServerDatePredicate(row, params) ==
    IF Truthy(Get(params, "dateRange"))
    THEN LET startYear  == getFullYear(ServerStart(params))
             startMonth == getMonth(ServerStart(params)) + 1
             endYear    == getFullYear(ServerEnd(params))
             endMonth   == getMonth(ServerEnd(params)) + 1
             year       == Get(row, "year").v[1]
             month      == Get(row, "month").v[1]
         IN  IF startYear = endYear
             THEN year = startYear /\ month >= startMonth /\ month <= endMonth
             ELSE \/ (year = startYear /\ month >= startMonth)
                  \/ (year = endYear /\ month <= endMonth)
                  \/ (year > startYear /\ year < endYear)
    ELSE TRUE

\* .in(column, list) when the list is non-empty
ServerInPredicate(row, params, pk, column) ==
    LET list == Get(params, pk) IN
    IF Truthy(list) /\ Length(list) > 0 THEN Includes(list, Get(row, column)) ELSE TRUE

\* statuses.map(status => status === ForecastStatus.Approved ? 'Approvato' : 'Bozza')
ServerStatusPredicate(row, params) ==
    LET list == Get(params, "statuses") IN
    IF Truthy(list) /\ Length(list) > 0
    THEN \E i \in 1..Length(list) :
            Get(row, "status") =
                (IF Elems(list)[i] = Str(Approvato) THEN Str(Approvato) ELSE Str(Bozza))
    ELSE TRUE

\* .gte(column, range.min).lte(column, range.max)
ServerRangePredicate(row, params, pk, column) ==
    LET range == Get(params, pk) IN
    IF Truthy(range)
    THEN /\ ~NumLT(Get(row, column), Get(range, "min"))
         /\ ~NumGT(Get(row, column), Get(range, "max"))
         /\ Get(row, column).t = "num"
    ELSE TRUE

buildDynamicQuery(row, params) ==
    /\ ServerDatePredicate(row, params)
    /\ ServerInPredicate(row, params, "businessUnitIds", "business_unit_id")
    /\ ServerInPredicate(row, params, "clientIds", "client_id")
    /\ ServerInPredicate(row, params, "userIds", "user_id")
    /\ ServerStatusPredicate(row, params)
    /\ ServerRangePredicate(row, params, "budgetRange", "budget")
    /\ ServerRangePredicate(row, params, "forecastRange", "forecast")
    /\ ServerRangePredicate(row, params, "declaredBudgetRange", "declared_budget")

\* .order('last_modified', {ascending: false}): a stable insertion sort
RECURSIVE InsertByLastModified(_, _)
InsertByLastModified(row, sorted) ==
    IF sorted = <<>> THEN <<row>>
    ELSE IF NumLT(Get(Head(sorted), "last_modified"), Get(row, "last_modified"))
         THEN <<row>> \o sorted
         ELSE <<Head(sorted)>> \o InsertByLastModified(row, Tail(sorted))
RECURSIVE OrderByLastModified(_)
OrderByLastModified(rows) ==
    IF rows = <<>> THEN <<>>
    ELSE InsertByLastModified(rows[Len(rows)],
                              OrderByLastModified(SubSeq(rows, 1, Len(rows) - 1)))

\* .range(start, end)
PageOf(rows, params) ==
    IF Truthy(Get(params, "limit"))
    THEN LET start == NumOf(OrZero(Get(params, "offset")))
             end   == start + NumOf(Get(params, "limit")) - 1
         IN  SubSeq(rows, start + 1, IF end + 1 < Len(rows) THEN end + 1 ELSE Len(rows))
    ELSE rows

\* the rows the query returns
QueryRows(table, params) ==
    PageOf(OrderByLastModified(SelectSeq(table, LAMBDA row : buildDynamicQuery(row, params))),
           params)

\* the record of the application for a row
TransformRow(row) == Obj(<<
    Prop("id", Get(row, "id")),
    Prop("month", Get(row, "month")),
    Prop("year", Get(row, "year")),
    Prop("clientId", Get(row, "client_id")),
    Prop("businessUnitId", Get(row, "business_unit_id")),
    Prop("declaredBudget", OrZero(Get(row, "declared_budget"))),
    Prop("budget", OrZero(Get(row, "budget"))),
    Prop("forecast", OrZero(Get(row, "forecast"))),
    Prop("userId", Get(row, "user_id")),
    Prop("lastModified", Get(row, "last_modified")),
    Prop("status", IF Get(row, "status") = Str(Approvato)
                   THEN Str(Approvato) ELSE Str(Bozza)),
    Prop("commentCount", Num(0)) >>)
TransformRows(rows) == [i \in 1..Len(rows) |-> TransformRow(rows[i])]

\* forecasts?.find(f => f.id === forecast.id)
FindRow(rows, id) ==
    IF \E i \in 1..Len(rows) : Get(rows[i], "id") = id
    THEN rows[CHOOSE i \in 1..Len(rows) :
                /\ Get(rows[i], "id") = id
                /\ \A j \in 1..(i - 1) : Get(rows[j], "id") # id]
    ELSE Undefined

\* the post-fetch pass on the countries of the clients
ServerCountryPass(forecast, rows, params) ==
    LET countries == Get(params, "countries") IN
    IF Truthy(countries) /\ Length(countries) > 0
    THEN LET paese == OptGet(OptGet(FindRow(rows, Get(forecast, "id")), "clients"), "paese")
         IN  Truthy(paese) /\ Includes(countries, paese)
    ELSE TRUE

\* [..].filter(Boolean).join(' ')
RECURSIVE JoinWithSpace(_)
JoinWithSpace(strs) ==
    IF strs = <<>> THEN <<>>
    ELSE IF Len(strs) = 1 THEN strs[1].v
    ELSE strs[1].v \o <<32>> \o JoinWithSpace(Tail(strs))

\* the post-fetch pass on the text search
ServerTextPass(forecast, rows, params) ==
    LET textSearch == Get(params, "textSearch") IN
    IF Truthy(textSearch) /\ Trim(textSearch.v) # <<>>
    THEN LET searchTerm   == Trim(ToLowerCase(textSearch.v))
             forecastData == FindRow(rows, Get(forecast, "id"))
             searchableText == ToLowerCase(JoinWithSpace(SelectSeq(
                 <<OptGet(OptGet(forecastData, "clients"), "name"),
                   OptGet(OptGet(forecastData, "business_units"), "name"),
                   OptGet(OptGet(forecastData, "profiles"), "full_name"),
                   Get(forecast, "status")>>, Truthy)))
         IN  forecastData # Undefined /\ StrIncludes(searchableText, searchTerm)
    ELSE TRUE

\* getAdvancedForecasts: the QueryResult, or the error it throws
getAdvancedForecasts(table, params) ==
    IF ServerRejects(params)
    THEN [ok |-> FALSE, data |-> <<>>, count |-> 0, totalCount |-> 0]
    ELSE LET rows == QueryRows(table, params)
             filteredForecasts == SelectSeq(TransformRows(rows),
                 LAMBDA forecast : /\ ServerCountryPass(forecast, rows, params)
                                   /\ ServerTextPass(forecast, rows, params))
         IN  [ok |-> TRUE, data |-> filteredForecasts,
              count |-> Len(filteredForecasts),
              totalCount |-> Len(SelectSeq(table,
                                 LAMBDA row : buildDynamicQuery(row, params)))]

(***************************************************************************)
(* Inputs: the values the filter controls and the callers hand in          *)
(***************************************************************************)
IT        == <<73,84>>
FR        == <<70,82>>

DateRangeOf(s, e) == Obj(<<Prop("start", s), Prop("end", e)>>)
Range(lo, hi)     == Obj(<<Prop("min", lo), Prop("max", hi)>>)
FirstHalf  == DateRangeOf(DateV(2024, 1, 1), DateV(2024, 6, 30))
SecondHalf == DateRangeOf(DateV(2024, 7, 1), DateV(2024, 12, 31))

IdArrays      == {Arr(<<>>)} \cup {Arr(<<Num(i)>>) : i \in 1..MaxId}
UserIdArrays  == {Arr(<<>>), Arr(<<Str(<<117, 49>>)>>)}
StatusArrays  == {Arr(<<>>), Arr(<<Str(Approvato)>>)}
CountryArrays == {Arr(<<>>), Arr(<<Str(IT)>>)}
DateRanges    == {Null, FirstHalf}
Searches      == {Str(<<>>), Str(<<97>>)}
Offsets       == {Undefined, Null, Num(0), Num(50)}

(***************************************************************************)
(* The filter state store on its own: every operation of FilterContext     *)
(***************************************************************************)
StoreInit ==
    /\ filters = defaultFilters
    /\ dataTypeSelection = defaultDataTypeSelection
    /\ storeOp = [op |-> "init", arg |-> Obj(<<>>), prev |-> Num(0)]

Store(op, partial) ==
    /\ filters' = updateFilters(filters, partial)
    /\ storeOp' = [op |-> op, arg |-> partial, prev |-> Get(filters, "offset")]
    /\ UNCHANGED <<dataTypeSelection, hashVars, evalVars, hookVars, sideVars>>

SetDateRange == \E x \in DateRanges :
    Store("setDateRange", Obj(<<Prop("dateRange", x)>>))
SetBusinessUnitIds == \E x \in IdArrays :
    Store("setBusinessUnitIds", Obj(<<Prop("businessUnitIds", x)>>))
SetClientIds == \E x \in IdArrays :
    Store("setClientIds", Obj(<<Prop("clientIds", x)>>))
SetUserIds == \E x \in UserIdArrays :
    Store("setUserIds", Obj(<<Prop("userIds", x)>>))
SetStatuses == \E x \in StatusArrays :
    Store("setStatuses", Obj(<<Prop("statuses", x)>>))
SetCountries == \E x \in CountryArrays :
    Store("setCountries", Obj(<<Prop("countries", x)>>))
SetTextSearch == \E x \in Searches :
    Store("setTextSearch", Obj(<<Prop("textSearch", x)>>))
\* updateFilters called directly: a page change, alone or with a filter
UpdateFiltersOffset == \E o \in Offsets, x \in IdArrays, both \in BOOLEAN :
    Store("updateFilters",
          Obj((IF both THEN <<Prop("businessUnitIds", x)>> ELSE <<>>)
              \o <<Prop("offset", o)>>))
\* a faulty variant of resetFilters: the text search of the previous state survives
resetFiltersKeepSearch(prev) ==
    SetProp(defaultFilters, "textSearch", Get(prev, "textSearch"))
\* setFilters(defaultFilters)
resetFilters(prev) == defaultFilters
ResetFilters ==
    /\ filters' = resetFilters(filters)
    /\ storeOp' = [op |-> "resetFilters", arg |-> Obj(<<>>), prev |-> Get(filters, "offset")]
    /\ UNCHANGED <<dataTypeSelection, hashVars, evalVars, hookVars, sideVars>>
SetDataTypeSelection == \E b \in BOOLEAN :
    /\ dataTypeSelection' = [budget |-> b, forecast |-> TRUE, declaredBudget |-> ~b]
    /\ storeOp' = [op |-> "setDataTypeSelection", arg |-> Obj(<<>>),
                   prev |-> Get(filters, "offset")]
    /\ UNCHANGED <<filters, hashVars, evalVars, hookVars, sideVars>>

HashIdle == hashA = Obj(<<>>) /\ hashB = Obj(<<>>) /\ hashOut = <<>>

NoEval == [done |-> FALSE, client |-> <<>>, ok |-> TRUE, server |-> <<>>]
StatsIdle ==
    /\ statsArgs = [totalCount |-> 0, filteredCount |-> 0, query |-> Undefined]
    /\ statsOut = [called |-> FALSE, threw |-> FALSE, value |-> Undefined]
EvalIdle == evalRows = <<>> /\ evalQuery = Obj(<<>>) /\ evalOut = NoEval /\ StatsIdle

NoLookup == [valid |-> FALSE, present |-> FALSE, age |-> 0, hit |-> FALSE,
             fetched |-> FALSE, metric |-> <<0, 0>>]
NoBurst  == [pending |-> TRUE, starts |-> 0, prevQuery |-> Undefined]
NoReturn == [how |-> "none", same |-> FALSE, query |-> Undefined, data |-> <<>>,
             error |-> Null, loading |-> FALSE]
NoOutput == [settled |-> TRUE, statistics |-> Null, error |-> Null, loading |-> FALSE]
HookIdle ==
    /\ config = [enableCache |-> TRUE, enableServerSideFiltering |-> TRUE]
    /\ now = 0
    /\ timers = {}
    /\ lastQueryRef = <<>>
    /\ loading = FALSE
    /\ error = Null
    /\ statistics = Null
    /\ dataCache = <<>>
    /\ inflight = <<>>
    /\ burst = NoBurst
    /\ lastQuery = Undefined
    /\ latestOut = NoOutput
    /\ lastLookup = NoLookup
    /\ returned = NoReturn
    /\ refetches = 0
    /\ observe = "none"
    /\ memoData = <<>>

\* usePerformanceMonitor and useLazyLoading before any call
NoMetrics == [renderTime |-> 0, filterTime |-> 0, queryTime |-> 0,
              cacheHitRate |-> 0, memoryUsage |-> 0, totalItems |-> 0,
              filteredItems |-> 0]
\* the thresholds are kept flat: renderTime .. memoryUsage
defaultConfig == [enableMonitoring |-> FALSE, enableAlerts |-> TRUE,
                  renderTime |-> 100, filterTime |-> 500, queryTime |-> 1000,
                  cacheHitRate |-> 70, memoryUsage |-> 100, sampleSize |-> 10]
\* { ...defaultConfig, ...config }
fullConfig(partial) ==
    [k \in DOMAIN defaultConfig |->
        IF k \in DOMAIN partial THEN partial[k] ELSE defaultConfig[k]]
NoMonOp   == [op |-> "none", open |-> FALSE, duration |-> 0, before |-> <<>>]
MonitorIdle ==
    /\ monConfig = defaultConfig
    /\ isMonitoring = FALSE
    /\ perfNow = 0
    /\ renderStartTime = 0
    /\ filterStartTime = 0
    /\ queryStartTime = 0
    /\ metricsHistory = <<>>
    /\ historyTimer = FALSE
    /\ metrics = NoMetrics
    /\ alerts = <<>>
    /\ monOp = NoMonOp
\* config.pageSize || 50
DefaultPageSize == 50
NoLazyOp == [op |-> "none", accepted |-> FALSE, fresh |-> FALSE]
LazyIdle ==
    /\ allItems = <<>>
    /\ lazyEnabled = FALSE
    /\ pageSize = DefaultPageSize
    /\ currentPage = 0
    /\ lazyLoading = FALSE
    /\ loadingRef = FALSE
    /\ loadTimers = 0
    /\ lazyOp = NoLazyOp
SideIdle == MonitorIdle /\ LazyIdle

InitFilters == StoreInit /\ HashIdle /\ EvalIdle /\ HookIdle /\ SideIdle
NextFilters ==
    \/ SetDateRange \/ SetBusinessUnitIds \/ SetClientIds \/ SetUserIds
    \/ SetStatuses \/ SetCountries \/ SetTextSearch
    \/ UpdateFiltersOffset \/ ResetFilters \/ SetDataTypeSelection
SpecFilters == InitFilters /\ [][NextFilters]_vars

Setters == {"setDateRange", "setBusinessUnitIds", "setClientIds", "setUserIds",
            "setStatuses", "setCountries", "setTextSearch"}

\* C5: after updateFilters(partial) the stored offset is 0 when partial supplies
\* no offset and the supplied value when it does; every per-dimension setter
\* leaves the offset at 0.
OffsetReset ==
    /\ storeOp.op \in Setters => Get(filters, "offset") = Num(0)
    /\ storeOp.op = "updateFilters" =>
          Get(filters, "offset") = IF Get(storeOp.arg, "offset") = Undefined
                                   THEN Num(0) ELSE Get(storeOp.arg, "offset")
\* updateFilters({businessUnitIds: [1]}) has run on a state whose offset was 50
OffsetResetWitness ==
    /\ storeOp.op = "setBusinessUnitIds"
    /\ storeOp.prev = Num(50)
    /\ Get(filters, "businessUnitIds") = Arr(<<Num(1)>>)
    /\ Get(filters, "offset") = Num(0)

(***************************************************************************)
(* generateQueryHash on its own: two FilterQuery objects are hashed        *)
(***************************************************************************)
\* zero or one property per key, so that a key may be absent
Opt(k, values) == {<<>>} \cup {<<Prop(k, x)>> : x \in values}
HashDateRanges == Opt("dateRange", {Null, FirstHalf, SecondHalf})
HashIds        == Opt("businessUnitIds", IdArrays)
HashRanges     == Opt("budgetRange", {Null, Range(Num(0), Num(1000)),
                      Obj(<<Prop("max", Num(1000)), Prop("min", Num(0))>>),
                      Range(Num(0), Num(500))})
HashOffsets    == Opt("offset", {Num(0), Num(50), Undefined})
HashQueriesInOrder == {Obj(d \o b \o r \o o) :
    d \in HashDateRanges, b \in HashIds, r \in HashRanges, o \in HashOffsets}
HashQueriesReversed == {Obj(o \o r \o b \o d) :
    d \in HashDateRanges, b \in HashIds, r \in HashRanges, o \in HashOffsets}

StoreIdle ==
    /\ filters = defaultFilters
    /\ dataTypeSelection = defaultDataTypeSelection
    /\ storeOp = [op |-> "init", arg |-> Obj(<<>>), prev |-> Num(0)]

InitHash ==
    /\ hashA \in HashQueriesInOrder
    /\ hashB \in HashQueriesInOrder \cup HashQueriesReversed
    /\ hashOut = <<>>
    /\ StoreIdle
    /\ EvalIdle
    /\ HookIdle
    /\ SideIdle
Hash ==
    /\ hashOut = <<>>
    /\ hashOut' = <<generateQueryHash(hashA), generateQueryHash(hashB)>>
    /\ UNCHANGED <<hashA, hashB, storeVars, evalVars, hookVars, sideVars>>
NextHash == Hash
SpecHash == InitHash /\ [][NextHash]_vars

\* the value of a field, whatever the insertion order of a nested object's keys
SameValue(x, y) ==
    IF x.t = "obj" /\ y.t = "obj"
    THEN \A k \in KeySet(x) \cup KeySet(y) : Get(x, k) = Get(y, k)
    ELSE x = y
SameFields(a, b) ==
    /\ KeySet(a) = KeySet(b)
    /\ \A k \in KeySet(a) : SameValue(Get(a, k), Get(b, k))
DifferInAField(a, b) ==
    \E k \in KeySet(a) \cup KeySet(b) : ~SameValue(Get(a, k), Get(b, k))

\* C6: two FilterQuery values that differ in the value of at least one field,
\* be it only in the bounds of a nested range, have different fingerprints.
FingerprintSensitive ==
    (hashOut # <<>> /\ DifferInAField(hashA, hashB)) => hashOut[1] # hashOut[2]

\* C7: two FilterQuery objects with the same field values and different
\* key-insertion orders have the same fingerprint.
FingerprintDeterministic ==
    (hashOut # <<>> /\ SameFields(hashA, hashB)) => hashOut[1] = hashOut[2]
\* two objects of three keys or more, inserted in different orders, were hashed
FingerprintDeterministicWitness ==
    /\ hashOut # <<>>
    /\ SameFields(hashA, hashB)
    /\ Len(hashA.f) >= 3
    /\ Keys(hashA) # Keys(hashB)
    /\ Get(hashA, "businessUnitIds") = Arr(<<Num(1)>>)
    /\ hashOut[1] = hashOut[2]

(***************************************************************************)
(* The two evaluators side by side on one table and one FilterQuery        *)
(***************************************************************************)
\* a row of forecasts with its joins; client i belongs to business unit i,
\* the clients of business unit 1 are Italian, the others French
Row(id, bu, budget, status) == Obj(<<
    Prop("id", Num(id)),
    Prop("month", Num(IF budget <= 1000 THEN 3 ELSE 9)),
    Prop("year", Num(2024)),
    Prop("client_id", Num(bu)),
    Prop("business_unit_id", Num(bu)),
    Prop("declared_budget", Num(budget)),
    Prop("budget", Num(budget)),
    Prop("forecast", Num(1000)),
    Prop("user_id", Str(<<117, 49>>)),
    Prop("last_modified", Num(100 - id)),
    Prop("status", Str(status)),
    Prop("clients", Obj(<<Prop("id", Num(bu)), Prop("name", Str(<<65, 99>>)),
                          Prop("paese", Str(IF bu = 1 THEN IT ELSE FR))>>)),
    Prop("business_units", Obj(<<Prop("id", Num(bu)), Prop("name", Str(<<68, 48 + bu>>))>>)),
    Prop("profiles", Obj(<<Prop("id", Str(<<117, 49>>)), Prop("full_name", Str(<<65, 110>>))>>)) >>)

RowChoices == (1..MaxId) \X {500, 1500} \X {Bozza, Approvato}
Tables == UNION {[1..n -> RowChoices] : n \in 0..MaxRecords}
TableOf(t) == [i \in 1..Len(t) |-> Row(i, t[i][1], t[i][2], t[i][3])]

FirstHalfApi == Obj(<<Prop("start", DateV(2024, 1, 1)), Prop("end", DateV(2024, 6, 30)),
                      Prop("startDate", DateV(2024, 1, 1)),
                      Prop("endDate", DateV(2024, 6, 30))>>)
EvalSearches == {Str(<<>>), Str(<<32>>), Str(<<32, 122>>)}
EvalQueries ==
    {Obj(<<>>)} \cup
    {buildQuery(Spread(defaultFilters, Obj(<<Prop("businessUnitIds", b),
        Prop("budgetRange", r), Prop("dateRange", d), Prop("statuses", s),
        Prop("countries", c), Prop("textSearch", t)>>))) :
        b \in IdArrays, r \in {Null, Range(Num(0), Num(1000))},
        d \in {Null, FirstHalfApi}, s \in StatusArrays, c \in CountryArrays,
        t \in EvalSearches}

InitEval ==
    /\ evalRows \in {TableOf(t) : t \in Tables}
    /\ evalQuery \in EvalQueries
    /\ evalOut = NoEval
    /\ StatsIdle
    /\ StoreIdle
    /\ HashIdle
    /\ HookIdle
    /\ SideIdle
\* the application holds the transformed records; both paths get the same plan
Evaluate ==
    /\ ~evalOut.done
    /\ LET result == getAdvancedForecasts(evalRows, AdvancedParams(evalQuery, Undefined))
       IN  evalOut' = [done |-> TRUE,
                       client |-> filterForecastsClientSide(TransformRows(evalRows), evalQuery),
                       ok |-> result.ok,
                       server |-> result.data]
    /\ UNCHANGED <<evalRows, evalQuery, statsArgs, statsOut, storeVars, hashVars,
                   hookVars, sideVars>>
NextEval == Evaluate
SpecEval == InitEval /\ [][NextEval]_vars

IdsOf(records) == {Get(records[i], "id") : i \in 1..Len(records)}

\* C8: the set of records the client-side evaluator accepts is the set the
\* server path returns for the same plan.
EvaluatorServerEquivalence ==
    evalOut.done => (evalOut.ok /\ IdsOf(evalOut.client) = IdsOf(evalOut.server))

\* every dimension of the query is empty or absent
Absent(x)      == x \in {Undefined, Null}
EmptyList(x)   == Absent(x) \/ (x.t = "arr" /\ Length(x) = 0)
BlankText(x)   == Absent(x) \/ (x.t = "str" /\ Trim(x.v) = <<>>)
IsNoOpQuery(q) ==
    /\ Absent(Get(q, "dateRange"))
    /\ \A k \in {"businessUnitIds", "clientIds", "userIds", "statuses", "countries"} :
          EmptyList(Get(q, k))
    /\ \A k \in {"budgetRange", "forecastRange", "declaredBudgetRange"} :
          Absent(Get(q, k))
    /\ BlankText(Get(q, "textSearch"))

\* C9: a FilterQuery whose every dimension is empty or absent makes
\* filterForecastsClientSide return every record, in the original order.
FilterNoOp ==
    (evalOut.done /\ IsNoOpQuery(evalQuery)) =>
        evalOut.client = TransformRows(evalRows)
\* the evaluator ran on two records with a whitespace-only search and empty lists
FilterNoOpWitness ==
    /\ evalOut.done
    /\ IsNoOpQuery(evalQuery)
    /\ Get(evalQuery, "textSearch") = Str(<<32>>)
    /\ Get(evalQuery, "businessUnitIds") = Arr(<<>>)
    /\ Len(evalRows) = 2
    /\ Len(evalOut.client) = 2

\* the query without its three id sets
WithoutIdSets(q) ==
    SetProp(SetProp(SetProp(q, "businessUnitIds", Arr(<<>>)),
                    "clientIds", Arr(<<>>)), "userIds", Arr(<<>>))
IdMember(r, q, qk, rk) ==
    EmptyList(Get(q, qk)) \/ Includes(Get(q, qk), Get(r, rk))
ExampleRows  == <<Row(1, 1, 500, Bozza), Row(2, 2, 1500, Approvato)>>
ExampleQuery == buildQuery(Spread(defaultFilters, Obj(<<
    Prop("businessUnitIds", Arr(<<Num(1)>>)),
    Prop("budgetRange", Range(Num(0), Num(1000)))>>)))

\* C10: on records of the application's shape a non-empty id set keeps exactly
\* the records whose businessUnitId / clientId / userId is a member (and that
\* pass the other clauses); the example of two records yields record 1.
IdentifierMembership ==
    evalOut.done =>
        /\ IdsOf(evalOut.client) =
             {Get(r, "id") : r \in {x \in {TransformRows(evalRows)[i] : i \in 1..Len(evalRows)} :
                 /\ IdMember(x, evalQuery, "businessUnitIds", "businessUnitId")
                 /\ IdMember(x, evalQuery, "clientIds", "clientId")
                 /\ IdMember(x, evalQuery, "userIds", "userId")
                 /\ ClientAccepts(x, WithoutIdSets(evalQuery))}}
        /\ (evalRows = ExampleRows /\ evalQuery = ExampleQuery) =>
               IdsOf(evalOut.client) = {Num(1)}

(***************************************************************************)
(* The result cache: the module's Map and cleanCache                       *)
(***************************************************************************)
CacheHas(cache, key) == \E i \in 1..Len(cache) : cache[i].key = key
CacheGet(cache, key) == cache[CHOOSE i \in 1..Len(cache) : cache[i].key = key]
\* Map.prototype.set: an existing key keeps its place
CacheSet(cache, key, entry) ==
    IF CacheHas(cache, key)
    THEN [i \in 1..Len(cache) |-> IF cache[i].key = key THEN entry ELSE cache[i]]
    ELSE Append(cache, entry)

\* entries.sort((a, b) => a[1].timestamp - b[1].timestamp), a stable sort
RECURSIVE InsertByTimestamp(_, _)
InsertByTimestamp(e, sorted) ==
    IF sorted = <<>> THEN <<e>>
    ELSE IF e.timestamp < Head(sorted).timestamp
         THEN <<e>> \o sorted
         ELSE <<Head(sorted)>> \o InsertByTimestamp(e, Tail(sorted))
\* a faulty variant of SortByTimestamp: the entries stay in insertion order
SortByInsertion(entries) == entries
RECURSIVE SortByTimestamp(_)
SortByTimestamp(entries) ==
    IF entries = <<>> THEN <<>>
    ELSE InsertByTimestamp(entries[Len(entries)],
                           SortByTimestamp(SubSeq(entries, 1, Len(entries) - 1)))

cleanCache(cache, maxSize) ==
    IF Len(cache) <= maxSize THEN cache
    ELSE LET entries  == SortByTimestamp(cache)
             toDelete == SubSeq(entries, 1, Len(entries) - maxSize)
         IN  SelectSeq(cache, LAMBDA e :
                 ~\E i \in 1..Len(toDelete) : toDelete[i].key = e.key)

\* a faulty variant of IsFresh: an entry of age cacheExpiry still counts as fresh
IsFreshInclusive(entry, t) == t - entry.timestamp <= CacheExpiry

\* Date.now() - cached.timestamp < config.cacheExpiry
IsFresh(entry, t) == t - entry.timestamp < CacheExpiry

(***************************************************************************)
(* The remote collaborator: the forecasts table and getFilteredStatistics  *)
(***************************************************************************)
\* the table of the backend and the collection the application holds
ServerTable == <<Row(1, 1, 500, Bozza), Row(2, 2, 1500, Approvato)>>
forecasts   == TransformRows(ServerTable)

RECURSIVE SumOf(_, _)
SumOf(records, k) ==
    IF records = <<>> THEN 0
    ELSE NumOf(Get(Head(records), k)) + SumOf(Tail(records), k)

\* the totals and the count of getFilteredStatistics (the averages and the
\* distributions are functions of the same records)
getFilteredStatistics(table, params) ==
    LET records == getAdvancedForecasts(table, params).data
    IN  Obj(<<Prop("totalBudget", Num(SumOf(records, "budget"))),
              Prop("totalForecast", Num(SumOf(records, "forecast"))),
              Prop("totalDeclaredBudget", Num(SumOf(records, "declaredBudget"))),
              Prop("forecastCount", Num(Len(records)))>>)

(***************************************************************************)
(* useFilteredData                                                         *)
(***************************************************************************)
\* the date ranges the filter controls set
HookDateRanges == {Null, FirstHalfApi,
                   Obj(<<Prop("start", DateV(2024, 7, 1)), Prop("end", DateV(2024, 12, 31)),
                         Prop("startDate", DateV(2024, 7, 1)),
                         Prop("endDate", DateV(2024, 12, 31))>>)}
HookPartials == {Obj(<<Prop("dateRange", d)>>) : d \in HookDateRanges}
\* generateQueryHash on the queries these controls produce, computed once
HookQueries ==
    {buildQuery(defaultFilters)} \cup
    {buildQuery(updateFilters(defaultFilters, partial)) : partial \in HookPartials}
HookQueryHash == [q \in HookQueries |-> generateQueryHash(q)]
\* queryHash = useMemo(() => generateQueryHash(query), [query])
QueryHash(query) ==
    IF query \in HookQueries THEN HookQueryHash[query] ELSE generateQueryHash(query)
\* what the functions of a render close over: query, queryHash (the two
\* useMemo values of that render) and the statistics state
Closure(f, stats) ==
    [query |-> buildQuery(f), queryHash |-> QueryHash(buildQuery(f)),
     statistics |-> stats]
\* the queryHash of the render fn
QueryHashOf(fn) == fn.queryHash

\* getCachedOrFilteredData of the render fn, run by the useMemo of filteredData
\* when one of its dependencies has changed (lazy loading is off: finalData =
\* cachedResult)
CachedOrFilteredData(fn, cache, t) ==
    IF CacheHas(cache, fn.queryHash) /\ IsFresh(CacheGet(cache, fn.queryHash), t)
    THEN CacheGet(cache, fn.queryHash).data
    ELSE filterForecastsClientSide(forecasts, fn.query)

\* the debounce effect: clearTimeout of the pending timeout, then setTimeout.
\* It runs after every render, since executeFiltering is a new function on
\* every render (the callbacks of usePerformanceMonitor depend on fullConfig,
\* a fresh object each time).
ScheduleDebounce(pending, t, fn) == {[due |-> t + DebounceMs, fn |-> fn]}

\* the render that follows a change of state, and its effects
Render(pending, f, ld, err, stats, fresh) ==
    IF fresh \/ <<f, ld, err, stats>> # <<filters, loading, error, statistics>>
    THEN ScheduleDebounce(pending, now, Closure(f, stats))
    ELSE pending

ErrorMessage == Str(<<69, 114, 114>>)
ParamsOf(fn) == AdvancedParams(fn.query, Undefined)
Entry(fn, data) ==
    [key |-> QueryHashOf(fn), data |-> data, timestamp |-> now,
     statistics |-> fn.statistics]
\* cleanCache(config.maxCacheSize); dataCache.set(queryHash, {...})
CacheWrite(cache, fn, data) ==
    IF config.enableCache
    THEN CacheSet(cleanCache(cache, MaxCacheSize), QueryHashOf(fn), Entry(fn, data))
    ELSE cache

\* the value an execution returns from its try block, with the error and
\* the loading flag it leaves
Returned(fn, data, err, ld) ==
    [how |-> "return", same |-> FALSE, query |-> fn.query, data |-> data,
     error |-> err, loading |-> ld]
\* an invocation of executeFiltering up to its first return or await: how it
\* went on, and whether its fingerprint was the one of the last execution
Invoked(how, fn, data, err, ld) ==
    [how |-> how, same |-> (QueryHashOf(fn) = lastQueryRef), query |-> fn.query,
     data |-> data, error |-> err, loading |-> ld]
\* the fallback of the catch block faulty: nothing is returned
CatchResultNone(fn) == <<>>
\* const filtered = filterForecastsClientSide(forecasts, query)  (catch block)
CatchResult(fn) == filterForecastsClientSide(forecasts, fn.query)
\* the catch block: setError(errorMessage), setLoading(false), return filtered
Caught(fn, err, ld) ==
    [how |-> "catch", same |-> FALSE, query |-> fn.query, data |-> CatchResult(fn),
     error |-> err, loading |-> ld]

Published(stats, err, ld) ==
    [settled |-> TRUE, statistics |-> stats, error |-> err, loading |-> ld]
Superseded == [i \in 1..Len(inflight) |-> [inflight[i] EXCEPT !.newest = FALSE]]

\* a guard that never holds: every invocation executes
SameAsLastNever(fn) == FALSE
\* if (queryHash === lastQueryRef.current) return;
SameAsLast(fn) == QueryHashOf(fn) = lastQueryRef

\* executeFiltering up to its first await, called by `by` (the debounce timer
\* or refetch) with the timeouts `pending` left
\* a faulty variant of CacheMetric: every lookup is reported as a miss
CacheMetricMiss(hit) == <<0, 1>>

\* the arguments (hits, total) of the updateCacheMetrics call of a lookup
CacheMetric(hit) == IF hit THEN <<1, 1>> ELSE <<0, 1>>

executeFiltering(fn, pending) ==
    IF SameAsLast(fn)
    THEN /\ timers' = pending
         /\ returned' = IF observe = "return"
                        THEN Invoked("skip", fn, <<>>, error, loading) ELSE returned
         /\ burst' = IF observe = "burst" THEN [burst EXCEPT !.pending = FALSE]
                     ELSE burst
         /\ UNCHANGED <<config, now, lastQueryRef, loading, error, statistics,
                        dataCache, inflight, lastQuery, latestOut, lastLookup,
                        observe, memoData>>
    ELSE LET queryHash == QueryHashOf(fn)
             present == CacheHas(dataCache, queryHash)
             hit     == /\ config.enableCache
                        /\ present
                        /\ IsFresh(CacheGet(dataCache, queryHash), now)
             cached  == CacheGet(dataCache, queryHash)
             filtered == filterForecastsClientSide(forecasts, fn.query)
             server  == ~hit /\ config.enableServerSideFiltering
             stats   == IF hit THEN cached.statistics ELSE statistics
         IN  /\ server => Len(inflight) < MaxInflight
             /\ lastQueryRef' = queryHash
             /\ error' = Null
             /\ loading' = server
             /\ statistics' = stats
             /\ dataCache' = IF hit \/ server THEN dataCache
                             ELSE CacheWrite(dataCache, fn, filtered)
             /\ inflight' = IF server
                            THEN Append(Superseded,
                                        [fn |-> fn, pc |-> "forecasts", newest |-> TRUE])
                            ELSE Superseded
             /\ timers' = Render(pending, filters, server, Null, stats, FALSE)
             /\ burst' = IF observe = "burst"
                         THEN [burst EXCEPT !.starts = @ + 1, !.pending = FALSE]
                         ELSE burst
             /\ lastQuery' = IF observe = "burst" THEN fn.query ELSE lastQuery
             /\ latestOut' = IF observe # "latest" THEN latestOut
                             ELSE IF server THEN [latestOut EXCEPT !.settled = FALSE]
                             ELSE Published(stats, Null, FALSE)
             /\ lastLookup' = IF observe = "lookup" /\ config.enableCache
                              THEN [valid |-> TRUE, present |-> present,
                                    age |-> IF present THEN now - cached.timestamp ELSE 0,
                                    hit |-> hit, fetched |-> server,
                                    metric |-> CacheMetric(hit)]
                              ELSE lastLookup
             /\ returned' = IF observe # "return" THEN returned
                            ELSE IF server
                            THEN Invoked("await", fn, <<>>, error', loading')
                            ELSE IF hit
                            THEN Invoked("hit", fn, cached.data, error', loading')
                            ELSE Invoked("local", fn, filtered, error', loading')
             /\ UNCHANGED <<config, now, observe, memoData>>

OrchFrame == UNCHANGED <<dataTypeSelection, storeOp, hashVars, evalVars, sideVars>>

\* the debounce timeout fires
DebounceFire == \E t \in timers :
    /\ t.due <= now
    /\ executeFiltering(t.fn, timers \ {t})
    /\ UNCHANGED <<filters, refetches>>
    /\ OrchFrame

\* await getAdvancedForecasts(params) returns; getFilteredStatistics is called
ForecastsResolve == \E i \in 1..Len(inflight) :
    /\ inflight[i].pc = "forecasts"
    /\ getAdvancedForecasts(ServerTable, ParamsOf(inflight[i].fn)).ok
    /\ inflight' = [inflight EXCEPT ![i].pc = "statistics"]
    /\ UNCHANGED <<filters, config, now, timers, lastQueryRef, loading, error,
                   statistics, dataCache, burst, lastQuery, latestOut, lastLookup,
                   returned, refetches,
                   observe, memoData>>
    /\ OrchFrame

Without(seq, i) == SubSeq(seq, 1, i - 1) \o SubSeq(seq, i + 1, Len(seq))

\* await getFilteredStatistics(params) returns: the rest of the try block
StatisticsResolve == \E i \in 1..Len(inflight) :
    LET fn    == inflight[i].fn
        stats == getFilteredStatistics(ServerTable, ParamsOf(fn))
        data  == getAdvancedForecasts(ServerTable, ParamsOf(fn)).data
    IN  /\ inflight[i].pc = "statistics"
        /\ statistics' = stats
        /\ dataCache' = CacheWrite(dataCache, fn, data)
        /\ loading' = FALSE
        /\ inflight' = Without(inflight, i)
        /\ timers' = Render(timers, filters, FALSE, error, stats, TRUE)
        /\ latestOut' = IF observe = "latest" /\ inflight[i].newest
                        THEN Published(stats, error, FALSE) ELSE latestOut
        /\ returned' = IF observe = "return" THEN Returned(fn, data, error, loading')
                       ELSE returned
        /\ UNCHANGED <<filters, config, now, lastQueryRef, error, burst,
                       lastQuery, lastLookup, refetches,
                   observe, memoData>>
        /\ OrchFrame

\* a faulty variant of CacheAfterCatch: the catch block stores its fallback
CacheAfterCatchWrite(cache, fn) == CacheWrite(cache, fn, CatchResult(fn))
\* the catch block has no dataCache.set and no cleanCache
CacheAfterCatch(cache, fn) == cache

\* a remote call rejects (the request itself, or the network): the catch block
RemoteRejects == \E i \in 1..Len(inflight) :
    /\ dataCache' = CacheAfterCatch(dataCache, inflight[i].fn)
    /\ error' = ErrorMessage
    /\ loading' = FALSE
    /\ inflight' = Without(inflight, i)
    /\ timers' = Render(timers, filters, FALSE, ErrorMessage, statistics, FALSE)
    /\ latestOut' = IF observe = "latest" /\ inflight[i].newest
                    THEN Published(statistics, ErrorMessage, FALSE) ELSE latestOut
    /\ returned' = IF observe = "return"
                   THEN Caught(inflight[i].fn, error', loading') ELSE returned
    /\ UNCHANGED <<filters, config, now, lastQueryRef, statistics,
                   burst, lastQuery, lastLookup, refetches,
                   observe, memoData>>
    /\ OrchFrame

\* refetch(): executeFiltering of the current render, called by the consumer
Refetch ==
    /\ observe = "return"
    /\ refetches < MaxRefetches
    /\ refetches' = refetches + 1
    /\ executeFiltering(Closure(filters, statistics), timers)
    /\ UNCHANGED filters
    /\ OrchFrame

\* clearCache: () => dataCache.clear(); the Map is no React state, nothing renders
ClearCache ==
    /\ observe = "return"
    /\ dataCache' = <<>>
    /\ returned' = [NoReturn EXCEPT !.how = "clear"]
    /\ UNCHANGED <<filters, config, now, timers, lastQueryRef, loading, error,
                   statistics, inflight, burst, lastQuery, latestOut, lastLookup,
                   refetches, observe, memoData>>
    /\ OrchFrame

\* a filter control changes the filter state; the hook renders
FilterChange == \E partial \in HookPartials :
                \E fn \in {Closure(updateFilters(filters, partial), statistics)} :
    /\ filters' = updateFilters(filters, partial)
    /\ timers' = ScheduleDebounce(timers, now, fn)
    /\ memoData' = CachedOrFilteredData(fn, dataCache, now)
    /\ burst' = IF observe # "burst" \/ burst.pending THEN burst
                ELSE [pending |-> TRUE, starts |-> 0, prevQuery |-> lastQuery]
    /\ UNCHANGED <<config, now, lastQueryRef, loading, error, statistics,
                   dataCache, inflight, lastQuery, latestOut, lastLookup, returned,
                   refetches,
                   observe>>
    /\ OrchFrame

\* time passes; a timeout fires when it is due
Tick ==
    /\ now < MaxTime
    /\ \A t \in timers : now < t.due
    /\ now' = now + 1
    /\ UNCHANGED <<filters, config, timers, lastQueryRef, loading, error,
                   statistics, dataCache, inflight, burst, lastQuery, latestOut,
                   lastLookup, returned, refetches,
                   observe, memoData>>
    /\ OrchFrame

\* the mount: the first render sets the first timeout
Init ==
    /\ StoreInit
    /\ HashIdle
    /\ EvalIdle
    /\ config = [enableCache |-> TRUE, enableServerSideFiltering |-> TRUE]
    /\ now = 0
    /\ timers = ScheduleDebounce({}, 0, Closure(defaultFilters, Null))
    /\ lastQueryRef = <<>>
    /\ loading = FALSE
    /\ error = Null
    /\ statistics = Null
    /\ dataCache = <<>>
    /\ inflight = <<>>
    /\ burst = NoBurst
    /\ lastQuery = Undefined
    /\ latestOut = NoOutput
    /\ lastLookup = NoLookup
    /\ returned = NoReturn
    /\ refetches = 0
    /\ observe \in {"latest", "burst", "lookup", "return"}
    /\ memoData = CachedOrFilteredData(Closure(defaultFilters, Null), <<>>, 0)
    /\ SideIdle

Next ==
    \/ FilterChange \/ DebounceFire \/ ForecastsResolve
    \/ StatisticsResolve \/ RemoteRejects \/ Refetch \/ ClearCache \/ Tick
Spec == Init /\ [][Next]_vars

CurrentQuery == buildQuery(filters)

\* C1: once every execution has settled, the published statistics, error and
\* loading are the ones the most recently started execution produced; the
\* late resolution or rejection of a superseded execution changes none.
StaleResponseDiscard ==
    (observe = "latest" /\ inflight = <<>> /\ latestOut.settled) =>
        /\ statistics = latestOut.statistics
        /\ error = latestOut.error
        /\ loading = latestOut.loading

\* C2: a burst of filter changes followed by the quiet period starts exactly
\* one execution, with the fingerprint of the last change.  A burst runs from
\* a filter change to the next run of the debounce callback; the formula
\* speaks of the bursts that end in a query other than the last one executed.
DebounceCollapsing ==
    (observe = "burst" /\ ~burst.pending /\ burst.prevQuery # CurrentQuery) =>
        /\ burst.starts = 1
        /\ lastQueryRef = generateQueryHash(CurrentQuery)

\* C3: with caching enabled, a lookup of a key whose entry is of age D is a
\* hit when D < cacheExpiry and a miss, which leads to a fetch, when
\* D >= cacheExpiry or when there is no entry.
CacheFreshness ==
    (observe = "lookup" /\ lastLookup.valid) =>
        /\ lastLookup.hit <=> (lastLookup.present /\ lastLookup.age < CacheExpiry)
        /\ lastLookup.fetched <=> ~lastLookup.hit
\* an entry of age exactly cacheExpiry was looked up, missed and fetched
CacheFreshnessWitness ==
    /\ observe = "lookup"
    /\ lastLookup.valid
    /\ lastLookup.present
    /\ lastLookup.age = CacheExpiry
    /\ ~lastLookup.hit
    /\ lastLookup.fetched

\* C4: after an insert the cache never holds more than maxSize entries.
CacheCapacity == Len(dataCache) <= MaxCacheSize


(***************************************************************************)
(* The numeric range clauses of filterForecastsClientSide on records of    *)
(* the application's shape                                                 *)
(***************************************************************************)
\* a Forecast with the given budget and declaredBudget (undefined: absent)
Forecast(id, budget, declaredBudget) == Obj(
    <<Prop("id", Num(id))>>
    \o (IF budget = Undefined THEN <<>> ELSE <<Prop("budget", budget)>>)
    \o <<Prop("forecast", Num(100))>>
    \o (IF declaredBudget = Undefined THEN <<>>
        ELSE <<Prop("declaredBudget", declaredBudget)>>))
RangeRecordChoices == {Undefined, Num(100), Num(101)} \X {Undefined, Num(500)}
RangeCollections == UNION {[1..n -> RangeRecordChoices] : n \in 1..MaxRecords}
RangeCollectionOf(c) == [i \in 1..Len(c) |-> Forecast(i, c[i][1], c[i][2])]
MinOnly(lo) == Obj(<<Prop("min", lo)>>)
MaxOnly(hi) == Obj(<<Prop("max", hi)>>)
BudgetRanges == {Null, Range(Num(100), Num(100)), MinOnly(Num(101)), MaxOnly(Num(99))}
ForecastRanges == {Null, Range(Num(100), Num(100)), MinOnly(Num(101))}
DeclaredBudgetRanges == {Null, MinOnly(Num(100))}
RangeQueries ==
    {buildQuery(Spread(defaultFilters, Obj(<<Prop("budgetRange", b),
        Prop("forecastRange", f), Prop("declaredBudgetRange", d)>>))) :
        b \in BudgetRanges, f \in ForecastRanges, d \in DeclaredBudgetRanges}

InitRange ==
    /\ evalRows \in {RangeCollectionOf(c) : c \in RangeCollections}
    /\ evalQuery \in RangeQueries
    /\ evalOut = NoEval
    /\ StatsIdle
    /\ StoreIdle
    /\ HashIdle
    /\ HookIdle
    /\ SideIdle
\* the evaluator runs on the collection the application holds
EvaluateRanges ==
    /\ ~evalOut.done
    /\ evalOut' = [done |-> TRUE,
                   client |-> filterForecastsClientSide(evalRows, evalQuery),
                   ok |-> TRUE, server |-> <<>>]
    /\ UNCHANGED <<evalRows, evalQuery, statsArgs, statsOut, storeVars, hashVars,
                   hookVars, sideVars>>
NextRange == EvaluateRanges
SpecRange == InitRange /\ [][NextRange]_vars

\* the value of a numeric field of a record, 0 when the record has none
FieldValue(r, field) == IF Has(r, field) THEN NumOf(Get(r, field)) ELSE 0
\* min <= value <= max, each bound only when it is defined
WithinRange(r, range, field) ==
    \/ range \in {Null, Undefined}
    \/ /\ (Get(range, "min") # Undefined =>
               FieldValue(r, field) >= NumOf(Get(range, "min")))
       /\ (Get(range, "max") # Undefined =>
               FieldValue(r, field) <= NumOf(Get(range, "max")))
WithinRanges(r, q) ==
    /\ WithinRange(r, Get(q, "budgetRange"), "budget")
    /\ WithinRange(r, Get(q, "forecastRange"), "forecast")
    /\ WithinRange(r, Get(q, "declaredBudgetRange"), "declaredBudget")

\* C11: with a range set on budget, forecast or declared budget, the
\* evaluator keeps exactly the records whose value of that field (0 when absent)
\* lies within the defined bounds, bounds inclusive, each field on its own.
NumericRangeSemantics ==
    evalOut.done =>
        evalOut.client = SelectSeq(evalRows, LAMBDA r : WithinRanges(r, evalQuery))


(***************************************************************************)
(* usePerformanceMonitor: the filter span and the alerts                   *)
(***************************************************************************)
MaxPerfTime == 4
\* prev.slice(-9)
AlertsKept == 9
Warning(metric, value, threshold) ==
    [type |-> "warning", metric |-> metric, value |-> value,
     threshold |-> threshold, timestamp |-> now]
\* a faulty variant of Slice: nothing is dropped
SliceAll(prev, n) == prev
\* prev.slice(-n)
Slice(prev, n) == SubSeq(prev, IF Len(prev) > n THEN Len(prev) - n + 1 ELSE 1, Len(prev))
\* setAlerts(prev => [...prev.slice(-9), alert])
addAlert(prev, metric, value, threshold) ==
    Append(Slice(prev, AlertsKept), Warning(metric, value, threshold))
\* a faulty variant of ExceedsThreshold: a duration at the threshold alerts
ExceedsThresholdInclusive(value, threshold) == value >= threshold
\* filterTime > fullConfig.thresholds.filterTime
ExceedsThreshold(value, threshold) == value > threshold

\* a faulty variant of NoSpan: an end without a start is measured
NoSpanMonitoringOnly(monitoring, start) == ~monitoring
\* !isMonitoring || xStartTime.current === 0
NoSpan(monitoring, start) == ~monitoring \/ start = 0

MonitorFrame == UNCHANGED <<storeVars, hashVars, evalVars, hookVars, lazyVars>>

\* the hook after its first render: the history effect has set its timeout
Mounted ==
    /\ isMonitoring = monConfig.enableMonitoring
    /\ perfNow = 1
    /\ renderStartTime = 0
    /\ filterStartTime = 0
    /\ queryStartTime = 0
    /\ metricsHistory = <<>>
    /\ historyTimer = TRUE
    /\ metrics = NoMetrics
    /\ alerts = <<>>
    /\ monOp = NoMonOp

InitMonitor ==
    /\ monConfig \in {fullConfig(c) : c \in [enableMonitoring : BOOLEAN,
                                               enableAlerts : BOOLEAN,
                                               filterTime : 1..2]}
    /\ Mounted
    /\ StoreIdle
    /\ HashIdle
    /\ EvalIdle
    /\ HookIdle
    /\ LazyIdle

\* time passes on the clock of performance.now()
PerfTick ==
    /\ perfNow < MaxPerfTime
    /\ perfNow' = perfNow + 1
    /\ UNCHANGED <<monConfig, isMonitoring, renderStartTime, filterStartTime,
                   queryStartTime, metricsHistory, historyTimer, metrics, alerts,
                   monOp>>
    /\ MonitorFrame

ToggleMonitoring ==
    /\ isMonitoring' = ~isMonitoring
    /\ monOp' = [op |-> "toggleMonitoring", open |-> filterStartTime # 0,
                 duration |-> 0, before |-> alerts]
    /\ UNCHANGED <<monConfig, perfNow, renderStartTime, filterStartTime,
                   queryStartTime, metricsHistory, historyTimer, metrics, alerts>>
    /\ MonitorFrame

StartFilterMeasure ==
    /\ filterStartTime' = IF isMonitoring THEN perfNow ELSE filterStartTime
    /\ monOp' = [op |-> "startFilterMeasure", open |-> filterStartTime # 0,
                 duration |-> 0, before |-> alerts]
    /\ UNCHANGED <<monConfig, isMonitoring, perfNow, renderStartTime,
                   queryStartTime, metricsHistory, historyTimer, metrics, alerts>>
    /\ MonitorFrame

EndFilterMeasure == \E filteredItems \in 0..1 :
    LET filterTime == perfNow - filterStartTime
        totalItems == MaxRecords
    IN  /\ monOp' = [op |-> "endFilterMeasure", open |-> filterStartTime # 0,
                     duration |-> filterTime, before |-> alerts]
        /\ IF NoSpan(isMonitoring, filterStartTime)
           THEN UNCHANGED <<filterStartTime, metrics, alerts, historyTimer>>
           ELSE /\ metrics' = [metrics EXCEPT !.filterTime = filterTime,
                                              !.totalItems = totalItems,
                                              !.filteredItems = filteredItems]
                /\ historyTimer' = TRUE
                /\ filterStartTime' = 0
                /\ alerts' = IF /\ monConfig.enableAlerts
                                /\ ExceedsThreshold(filterTime, monConfig.filterTime)
                             THEN addAlert(alerts, "filterTime", filterTime,
                                           monConfig.filterTime)
                             ELSE alerts
        /\ UNCHANGED <<monConfig, isMonitoring, perfNow, renderStartTime,
                       queryStartTime, metricsHistory>>
        /\ MonitorFrame

NextMonitor == PerfTick \/ ToggleMonitoring \/ StartFilterMeasure \/ EndFilterMeasure
SpecMonitor == InitMonitor /\ [][NextMonitor]_vars

\* C12: with monitoring and alerts enabled and a filter span open,
\* endFilterMeasure appends exactly one alert (warning, filterTime, the measured
\* duration, the configured threshold) when the duration exceeds the threshold,
\* and none when it is at or below the threshold.
AlertEmission ==
    (/\ monOp.op = "endFilterMeasure"
     /\ isMonitoring
     /\ monConfig.enableAlerts
     /\ monOp.open) =>
        IF monOp.duration > monConfig.filterTime
        THEN /\ alerts # <<>>
             /\ SubSeq(alerts, 1, Len(alerts) - 1) = Slice(monOp.before, AlertsKept)
             /\ LET alert == alerts[Len(alerts)]
                IN  /\ alert.type = "warning"
                    /\ alert.metric = "filterTime"
                    /\ alert.value = monOp.duration
                    /\ alert.threshold = monConfig.filterTime
        ELSE alerts = monOp.before
\* a span of exactly the threshold was closed without an alert, after an
\* earlier span had raised one
AlertEmissionWitness ==
    /\ monOp.op = "endFilterMeasure"
    /\ isMonitoring
    /\ monConfig.enableAlerts
    /\ monOp.open
    /\ monOp.duration = monConfig.filterTime
    /\ Len(alerts) = 1
    /\ alerts = monOp.before


\* C13: when the remote query or the statistics request raises, the
\* execution ends in its catch block: error is a message, loading is false and
\* the value returned is the client-side evaluator applied to the whole local
\* collection.
FallbackOnFailure ==
    (observe = "return" /\ returned.how = "catch") =>
        /\ returned.error # Null
        /\ returned.loading = FALSE
        /\ returned.data = filterForecastsClientSide(forecasts, returned.query)
\* an execution with a date range failed and fell back to the local records
FallbackOnFailureWitness ==
    /\ observe = "return"
    /\ returned.how = "catch"
    /\ Get(returned.query, "dateRange") # Null
    /\ Len(returned.data) = Len(forecasts)
    /\ error = ErrorMessage
    /\ ~loading


\* a step in which executeFiltering is invoked, up to its first return or await
InvocationStep ==
    /\ observe = "return"
    /\ returned' # returned
    /\ returned'.how \in {"skip", "hit", "local", "await"}

\* C14: an invocation of executeFiltering whose fingerprint equals the one of
\* the last started execution returns at once and changes nothing: loading,
\* error, statistics, the cache, the executions in flight and the last
\* fingerprint stay as they are, and no lookup is recorded.
FingerprintShortCircuit ==
    [][(InvocationStep /\ returned'.same) =>
          /\ returned'.how = "skip"
          /\ UNCHANGED <<loading, error, statistics, dataCache, inflight,
                         lastQueryRef, lastLookup, latestOut>>]_vars
\* refetch was called while the execution of the same fingerprint was still
\* in flight, and returned at the guard
FingerprintShortCircuitWitness ==
    /\ observe = "return"
    /\ returned.how = "skip"
    /\ returned.same
    /\ refetches = 1
    /\ inflight # <<>>
    /\ loading


\* C15: whenever a step writes a cache entry, the key written is the most
\* recently requested fingerprint (lastQueryRef): the response of an
\* execution that was superseded while in flight is never inserted.
NewestCommitsOnly ==
    [][\A i \in 1..Len(dataCache') :
          (\A j \in 1..Len(dataCache) : dataCache[j] # dataCache'[i])
              => dataCache'[i].key = lastQueryRef']_vars


\* a step in which executeFiltering finds a present and fresh cache entry
CacheHitStep ==
    /\ observe = "lookup"
    /\ lastQueryRef' # lastQueryRef
    /\ lastLookup'.valid
    /\ lastLookup'.hit

\* C16: an execution that finds a present and fresh entry for its
\* fingerprint starts no remote call, publishes the entry's statistics,
\* reports the cache-hit metric updateCacheMetrics(1, 1), ends with loading
\* false and leaves the cache, timestamps included, unchanged.
CacheHitPath ==
    [][CacheHitStep =>
          /\ ~lastLookup'.fetched
          /\ Len(inflight') = Len(inflight)
          /\ \A i \in 1..Len(inflight) :
                /\ inflight'[i].fn = inflight[i].fn
                /\ inflight'[i].pc = inflight[i].pc
          /\ statistics' = CacheGet(dataCache, lastQueryRef').statistics
          /\ lastLookup'.metric = <<1, 1>>
          /\ loading' = FALSE
          /\ dataCache' = dataCache]_vars
\* a lookup that found a fresh entry older than zero
CacheHitPathWitness ==
    /\ observe = "lookup"
    /\ lastLookup.valid
    /\ lastLookup.hit
    /\ lastLookup.age > 0
    /\ lastLookup.metric = <<1, 1>>
    /\ ~loading


(***************************************************************************)
(* useLazyLoading, as useFilteredData calls it on its forecasts            *)
(***************************************************************************)
MaxItems == 3
MaxPageSize == 2
MaxLoadTimers == 2

\* the collection of the first n records
LazyCollection(n) == [i \in 1..n |-> Forecast(i, Num(500 * i), Num(500))]
LazyCollections == {LazyCollection(n) : n \in 0..MaxItems}
LazyBudgetRanges == {Null, MinOnly(Num(1000))}

\* a faulty variant of ShownCount: the pages are counted from one
ShownCountFromOne(page, size, total) ==
    IF page * size < total THEN page * size ELSE total
\* the length of allItems.slice(0, (currentPage + 1) * options.pageSize)
ShownCount(page, size, total) ==
    IF (page + 1) * size < total THEN (page + 1) * size ELSE total
itemsToShow ==
    IF lazyEnabled
    THEN SubSeq(allItems, 1, ShownCount(currentPage, pageSize, Len(allItems)))
    ELSE allItems
hasMore == IF lazyEnabled THEN Len(itemsToShow) < Len(allItems) ELSE FALSE

\* the cached data of the current query while fresh, else the local result
getCachedOrFilteredData ==
    LET query     == buildQuery(filters)
        queryHash == generateQueryHash(query)
    IN  IF CacheHas(dataCache, queryHash) /\ IsFresh(CacheGet(dataCache, queryHash), now)
        THEN CacheGet(dataCache, queryHash).data
        ELSE filterForecastsClientSide(allItems, query)
\* the data useFilteredData returns
filteredData == IF lazyEnabled THEN itemsToShow ELSE getCachedOrFilteredData

LazyFrame == UNCHANGED <<storeVars, hashVars, evalVars, hookVars, monitorVars>>

InitLazy ==
    /\ StoreIdle
    /\ HashIdle
    /\ EvalIdle
    /\ HookIdle
    /\ MonitorIdle
    /\ allItems \in LazyCollections
    /\ lazyEnabled \in BOOLEAN
    /\ pageSize \in 1..MaxPageSize
    /\ currentPage = 0
    /\ lazyLoading = FALSE
    /\ loadingRef = FALSE
    /\ loadTimers = 0
    /\ lazyOp = NoLazyOp

\* loadMore()
LoadMore ==
    IF lazyLoading \/ ~hasMore \/ loadingRef
    THEN /\ lazyOp' = [op |-> "loadMore", accepted |-> FALSE, fresh |-> FALSE]
         /\ UNCHANGED <<allItems, lazyEnabled, pageSize, currentPage, lazyLoading,
                        loadingRef, loadTimers>>
         /\ LazyFrame
    ELSE /\ loadTimers < MaxLoadTimers
         /\ loadingRef' = TRUE
         /\ lazyLoading' = TRUE
         /\ loadTimers' = loadTimers + 1
         /\ lazyOp' = [op |-> "loadMore", accepted |-> TRUE, fresh |-> FALSE]
         /\ UNCHANGED <<allItems, lazyEnabled, pageSize, currentPage>>
         /\ LazyFrame
\* the timeout of loadMore fires
LoadMoreTimer ==
    /\ loadTimers > 0
    /\ loadTimers' = loadTimers - 1
    /\ currentPage' = currentPage + 1
    /\ lazyLoading' = FALSE
    /\ loadingRef' = FALSE
    /\ lazyOp' = [lazyOp EXCEPT !.op = "timer"]
    /\ UNCHANGED <<allItems, lazyEnabled, pageSize>>
    /\ LazyFrame
\* reset(), which executeFiltering calls as resetLazyLoading
Reset ==
    /\ currentPage' = 0
    /\ lazyLoading' = FALSE
    /\ loadingRef' = FALSE
    /\ lazyOp' = [op |-> "reset", accepted |-> FALSE, fresh |-> TRUE]
    /\ UNCHANGED <<allItems, lazyEnabled, pageSize, loadTimers>>
    /\ LazyFrame
\* the collection changes: the effect on [allItems] runs
ItemsChange == \E items \in LazyCollections \ {allItems} :
    /\ allItems' = items
    /\ currentPage' = 0
    /\ lazyOp' = [op |-> "items", accepted |-> FALSE, fresh |-> TRUE]
    /\ UNCHANGED <<lazyEnabled, pageSize, lazyLoading, loadingRef, loadTimers>>
    /\ LazyFrame
\* the budget range of the filter state changes; the collection does not
UpdateBudgetRange == \E b \in LazyBudgetRanges :
    /\ Get(filters, "budgetRange") # b
    /\ Store("updateFilters", Obj(<<Prop("budgetRange", b)>>))
NextLazy == LoadMore \/ LoadMoreTimer \/ Reset \/ ItemsChange \/ UpdateBudgetRange
SpecLazy == InitLazy /\ [][NextLazy]_vars

\* C17: at most one loadMore is outstanding at any time, whatever the
\* interleaving of loadMore, its timeout, reset and changes of the collection.
LoadMoreReentrancy == loadTimers <= 1

\* the prefix the claim describes: the first min((page + 1) * size, total)
FirstPages ==
    LET reach == (currentPage + 1) * pageSize
    IN  SubSeq(allItems, 1, IF reach < Len(allItems) THEN reach ELSE Len(allItems))

PrefixShape ==
    /\ lazyEnabled => /\ itemsToShow = FirstPages
                      /\ hasMore <=> (Len(itemsToShow) < Len(allItems))
    /\ ~lazyEnabled => (itemsToShow = allItems /\ ~hasMore)

\* C18: with lazy loading enabled the exposed items are the first
\* min((currentPage + 1) * pageSize, total) elements in order and hasMore
\* holds iff fewer than total are shown; loadMore changes nothing when hasMore
\* is false; between resets the length shown never decreases; with lazy
\* loading disabled the whole collection is exposed and hasMore is false.
LazyLoadingPrefix ==
    [][/\ PrefixShape
       /\ PrefixShape'
       /\ (lazyOp'.op = "loadMore" /\ ~hasMore) =>
              UNCHANGED <<allItems, currentPage, lazyLoading, loadingRef, loadTimers>>
       /\ lazyOp'.op \notin {"reset", "items"} =>
              Len(itemsToShow') >= Len(itemsToShow)]_vars
\* loadMore was refused on a collection shown in full after two pages
LazyLoadingPrefixWitness ==
    /\ lazyEnabled
    /\ currentPage >= 1
    /\ Len(itemsToShow) > pageSize
    /\ itemsToShow = allItems
    /\ ~hasMore
    /\ lazyOp.op = "loadMore"
    /\ ~lazyOp.accepted

\* C19: with lazy loading enabled, every record useFilteredData publishes
\* satisfies the current query: the data are a prefix of the filtered set.
LazyPaginatesFiltered ==
    lazyEnabled =>
        \A i \in 1..Len(filteredData) : ClientAccepts(filteredData[i], buildQuery(filters))

\* C20: after reset(), or a change of the collection, the first page alone is
\* revealed until loadMore is invoked again: a loadMore outstanding at the
\* reset does not advance the page afterwards.
ResetToFirstPage == lazyOp.fresh => currentPage = 0


(***************************************************************************)
(* usePerformanceMonitor: the render and query spans, the cache metric,    *)
(* the memory samples, the rolling history and the controls                *)
(***************************************************************************)
\* the readings of usedJSHeapSize, in MB
MemorySamples == {0, 1}

StartRenderMeasure ==
    /\ renderStartTime' = IF isMonitoring THEN perfNow ELSE renderStartTime
    /\ monOp' = [op |-> "startRenderMeasure", open |-> renderStartTime # 0,
                 duration |-> 0, before |-> alerts]
    /\ UNCHANGED <<monConfig, isMonitoring, perfNow, filterStartTime,
                   queryStartTime, metricsHistory, historyTimer, metrics, alerts>>
    /\ MonitorFrame

EndRenderMeasure ==
    LET renderTime == perfNow - renderStartTime
    IN  /\ monOp' = [op |-> "endRenderMeasure", open |-> renderStartTime # 0,
                     duration |-> renderTime, before |-> alerts]
        /\ IF NoSpan(isMonitoring, renderStartTime)
           THEN UNCHANGED <<renderStartTime, metrics, alerts, historyTimer>>
           ELSE /\ metrics' = [metrics EXCEPT !.renderTime = renderTime]
                /\ historyTimer' = TRUE
                /\ renderStartTime' = 0
                /\ alerts' = IF /\ monConfig.enableAlerts
                                /\ ExceedsThreshold(renderTime, monConfig.renderTime)
                             THEN addAlert(alerts, "renderTime", renderTime,
                                           monConfig.renderTime)
                             ELSE alerts
        /\ UNCHANGED <<monConfig, isMonitoring, perfNow, filterStartTime,
                       queryStartTime, metricsHistory>>
        /\ MonitorFrame

StartQueryMeasure ==
    /\ queryStartTime' = IF isMonitoring THEN perfNow ELSE queryStartTime
    /\ monOp' = [op |-> "startQueryMeasure", open |-> queryStartTime # 0,
                 duration |-> 0, before |-> alerts]
    /\ UNCHANGED <<monConfig, isMonitoring, perfNow, renderStartTime,
                   filterStartTime, metricsHistory, historyTimer, metrics, alerts>>
    /\ MonitorFrame

EndQueryMeasure ==
    LET queryTime == perfNow - queryStartTime
    IN  /\ monOp' = [op |-> "endQueryMeasure", open |-> queryStartTime # 0,
                     duration |-> queryTime, before |-> alerts]
        /\ IF NoSpan(isMonitoring, queryStartTime)
           THEN UNCHANGED <<queryStartTime, metrics, alerts, historyTimer>>
           ELSE /\ metrics' = [metrics EXCEPT !.queryTime = queryTime]
                /\ historyTimer' = TRUE
                /\ queryStartTime' = 0
                /\ alerts' = IF /\ monConfig.enableAlerts
                                /\ ExceedsThreshold(queryTime, monConfig.queryTime)
                             THEN addAlert(alerts, "queryTime", queryTime,
                                           monConfig.queryTime)
                             ELSE alerts
        /\ UNCHANGED <<monConfig, isMonitoring, perfNow, renderStartTime,
                       filterStartTime, metricsHistory>>
        /\ MonitorFrame

\* the calls of updateCacheMetrics, (hits, total): the two executeFiltering
\* makes, one without attempts and one with a hit in two
CacheCalls == {CacheMetric(TRUE), CacheMetric(FALSE), <<0, 0>>, <<1, 2>>}
\* a faulty variant of HitRate: the rate of a call without attempts is 100
HitRateFull(hits, total) == IF total > 0 THEN (hits * 100) \div total ELSE 100
\* total > 0 ? (hits / total) * 100 : 0, on calls whose quotient is exact
HitRate(hits, total) == IF total > 0 THEN (hits * 100) \div total ELSE 0

\* a faulty variant of Inert: the call takes effect whatever isMonitoring is
InertNever(monitoring) == FALSE
\* if (!isMonitoring) return
Inert(monitoring) == ~monitoring

\* a faulty variant of BelowThreshold: no rate is below the threshold
BelowThresholdNever(value, threshold) == FALSE
\* cacheHitRate < fullConfig.thresholds.cacheHitRate
BelowThreshold(value, threshold) == value < threshold

UpdateCacheMetrics == \E call \in CacheCalls :
    LET cacheHitRate == HitRate(call[1], call[2])
    IN  /\ monOp' = [op |-> "updateCacheMetrics", open |-> FALSE, duration |-> 0,
                     before |-> alerts, hits |-> call[1], total |-> call[2]]
        /\ IF Inert(isMonitoring)
           THEN UNCHANGED <<metrics, alerts, historyTimer>>
           ELSE /\ metrics' = [metrics EXCEPT !.cacheHitRate = cacheHitRate]
                /\ historyTimer' = TRUE
                /\ alerts' = IF /\ monConfig.enableAlerts
                                /\ BelowThreshold(cacheHitRate, monConfig.cacheHitRate)
                             THEN addAlert(alerts, "cacheHitRate", cacheHitRate,
                                           monConfig.cacheHitRate)
                             ELSE alerts
        /\ UNCHANGED <<monConfig, isMonitoring, perfNow, renderStartTime,
                       filterStartTime, queryStartTime, metricsHistory>>
        /\ MonitorFrame

\* checkMemory, which the interval calls while isMonitoring holds
CheckMemory == \E memoryUsage \in MemorySamples :
    /\ isMonitoring
    /\ monOp' = [op |-> "checkMemory", open |-> FALSE, duration |-> memoryUsage,
                 before |-> alerts]
    /\ metrics' = [metrics EXCEPT !.memoryUsage = memoryUsage]
    /\ historyTimer' = TRUE
    /\ alerts' = IF /\ monConfig.enableAlerts
                    /\ ExceedsThreshold(memoryUsage, monConfig.memoryUsage)
                 THEN addAlert(alerts, "memoryUsage", memoryUsage,
                               monConfig.memoryUsage)
                 ELSE alerts
    /\ UNCHANGED <<monConfig, isMonitoring, perfNow, renderStartTime,
                   filterStartTime, queryStartTime, metricsHistory>>
    /\ MonitorFrame

\* a faulty variant of Retain: a full history refuses the new snapshot
RetainOldest(history, sampleSize) ==
    IF Len(history) > sampleSize THEN SubSeq(history, 1, Len(history) - 1)
    ELSE history
\* if (metricsHistory.current.length > sampleSize) metricsHistory.current.shift()
Retain(history, sampleSize) ==
    IF Len(history) > sampleSize THEN Tail(history) ELSE history

\* the throttle timeout of the history effect fires
HistoryPush ==
    /\ historyTimer
    /\ historyTimer' = FALSE
    /\ metricsHistory' = Retain(Append(metricsHistory, metrics), monConfig.sampleSize)
    /\ monOp' = [op |-> "history", open |-> FALSE, duration |-> 0, before |-> alerts]
    /\ UNCHANGED <<monConfig, isMonitoring, perfNow, renderStartTime,
                   filterStartTime, queryStartTime, metrics, alerts>>
    /\ MonitorFrame

ClearAlerts ==
    /\ alerts' = <<>>
    /\ monOp' = [op |-> "clearAlerts", open |-> FALSE, duration |-> 0,
                 before |-> alerts]
    /\ UNCHANGED <<monConfig, isMonitoring, perfNow, renderStartTime,
                   filterStartTime, queryStartTime, metricsHistory, historyTimer,
                   metrics>>
    /\ MonitorFrame

ClearHistory ==
    /\ metricsHistory' = <<>>
    /\ monOp' = [op |-> "clearHistory", open |-> FALSE, duration |-> 0,
                 before |-> alerts]
    /\ UNCHANGED <<monConfig, isMonitoring, perfNow, renderStartTime,
                   filterStartTime, queryStartTime, historyTimer, metrics, alerts>>
    /\ MonitorFrame

\* the three spans, with the render threshold at one tick
InitSpans ==
    /\ monConfig \in {fullConfig([enableMonitoring |-> m, renderTime |-> 1]) :
                      m \in BOOLEAN}
    /\ Mounted
    /\ StoreIdle
    /\ HashIdle
    /\ EvalIdle
    /\ HookIdle
    /\ LazyIdle
NextSpans ==
    \/ PerfTick \/ ToggleMonitoring
    \/ StartRenderMeasure \/ EndRenderMeasure
    \/ StartFilterMeasure \/ EndFilterMeasure
    \/ StartQueryMeasure \/ EndQueryMeasure
SpecSpans == InitSpans /\ [][NextSpans]_vars

\* the step is a call of op (the clock stands still during a call)
Called(op) == monOp'.op = op /\ perfNow' = perfNow
\* an end without a pending start changes nothing
EndIsNoOp(end, start) ==
    (Called(end) /\ start = 0) =>
        UNCHANGED <<metrics, alerts, renderStartTime, filterStartTime, queryStartTime>>
\* a span is opened by its start only, and a measurement closes the span
OneMeasurement(begin, end, start, startNext) ==
    /\ (start = 0 /\ startNext # 0) => Called(begin)
    /\ (Called(end) /\ (metrics' # metrics \/ alerts' # alerts)) =>
           (start # 0 /\ startNext = 0)

InertConfigs ==
    {fullConfig([enableMonitoring |-> m, cacheHitRate |-> 0, sampleSize |-> 1]) :
        m \in BOOLEAN}
    \cup {fullConfig([enableMonitoring |-> TRUE, cacheHitRate |-> 0,
                      memoryUsage |-> 0, sampleSize |-> 0])}
InitInert ==
    /\ monConfig \in InertConfigs
    /\ Mounted
    /\ StoreIdle
    /\ HashIdle
    /\ EvalIdle
    /\ HookIdle
    /\ LazyIdle
NextInert ==
    \/ ToggleMonitoring
    \/ StartRenderMeasure \/ EndRenderMeasure
    \/ StartFilterMeasure \/ EndFilterMeasure
    \/ StartQueryMeasure \/ EndQueryMeasure
    \/ UpdateCacheMetrics \/ CheckMemory \/ HistoryPush
SpecInert == InitInert /\ [][NextInert]_vars

MeasurementCalls ==
    {"startRenderMeasure", "endRenderMeasure", "startFilterMeasure",
     "endFilterMeasure", "startQueryMeasure", "endQueryMeasure",
     "updateCacheMetrics"}

\* C22: while isMonitoring is false, a call of startXMeasure, endXMeasure or
\* updateCacheMetrics leaves the metrics, the alerts, the three start markers
\* and the history as they are and schedules no history snapshot, and
\* checkMemory takes no sample.
MonitoringOffInert ==
    [][/\ (~isMonitoring /\ monOp'.op \in MeasurementCalls) =>
              UNCHANGED <<metrics, alerts, renderStartTime, filterStartTime,
                          queryStartTime, metricsHistory, historyTimer>>
       /\ (~isMonitoring /\ isMonitoring' = isMonitoring) =>
              (metrics' = metrics /\ alerts' = alerts)]_vars
\* updateCacheMetrics(1, 1) was called while monitoring was off, with a render
\* span pending, an alert in the list and a hit rate of 50 published before
MonitoringOffInertWitness ==
    /\ ~isMonitoring
    /\ monOp.op = "updateCacheMetrics"
    /\ monOp.hits = 1
    /\ monOp.total = 1
    /\ metrics.cacheHitRate = 50
    /\ metrics.memoryUsage = 1
    /\ renderStartTime # 0
    /\ alerts # <<>>

\* the alerts of the default configuration: a hit rate below 70 raises one
InitAlerts ==
    /\ monConfig = fullConfig([enableMonitoring |-> TRUE])
    /\ Mounted
    /\ StoreIdle
    /\ HashIdle
    /\ EvalIdle
    /\ HookIdle
    /\ LazyIdle
NextAlerts == UpdateCacheMetrics \/ ClearAlerts
SpecAlerts == InitAlerts /\ [][NextAlerts]_vars

\* C23: the alert list never holds more than 10 alerts; an alert appended to
\* a list of 10 drops the oldest one, and the alerts that remain keep their
\* order and content; clearAlerts empties the list.
AlertCap ==
    [][/\ Len(alerts') <= 10
       /\ (monOp'.op = "updateCacheMetrics" /\ alerts' # alerts) =>
              /\ alerts' # <<>>
              /\ SubSeq(alerts', 1, Len(alerts') - 1)
                     = IF Len(alerts) = 10 THEN Tail(alerts) ELSE alerts
       /\ monOp'.op = "clearAlerts" => alerts' = <<>>]_vars
\* an alert of value 50 was appended to a list of 10 whose oldest had value 0
AlertCapWitness ==
    /\ monOp.op = "updateCacheMetrics"
    /\ Len(monOp.before) = 10
    /\ monOp.before[1].value = 0
    /\ monOp.before[2].value = 50
    /\ Len(alerts) = 10
    /\ alerts[1].value = 50
    /\ alerts[10].value = 50

\* C28: after updateCacheMetrics(hits, total) with monitoring on, cacheHitRate
\* is hits / total * 100, and 0 when total is 0, whatever the earlier calls
\* were; after the call executeFiltering makes on a cache hit it is 100 and
\* after the one it makes on a miss it is 0.
InstantaneousHitRate ==
    (monOp.op = "updateCacheMetrics" /\ isMonitoring) =>
        /\ IF monOp.total = 0 THEN metrics.cacheHitRate = 0
           ELSE metrics.cacheHitRate * monOp.total = monOp.hits * 100
        /\ \A hit \in BOOLEAN :
              <<monOp.hits, monOp.total>> = CacheMetric(hit) =>
                  metrics.cacheHitRate = IF hit THEN 100 ELSE 0
\* the call of a cache hit restated the rate as 100 after two misses
InstantaneousHitRateWitness ==
    /\ monOp.op = "updateCacheMetrics"
    /\ isMonitoring
    /\ <<monOp.hits, monOp.total>> = CacheMetric(TRUE)
    /\ metrics.cacheHitRate = 100
    /\ Len(monOp.before) = 2
    /\ alerts = monOp.before
    /\ \A i \in 1..2 : alerts[i].value = 0


(***************************************************************************)
(* The numbers of getAggregateStats: non-negative binary floating point    *)
(* values sig * 2^exp, sig a sequence of bits with the most significant    *)
(* first, kept without leading and trailing zeros (the empty sequence is   *)
(* zero); an operation rounds its exact result to the nearest value of     *)
(* Precision bits, ties to even                                            *)
(***************************************************************************)
\* the significand of a JavaScript number
Precision == 53

Zeros(n) == [i \in 1..n |-> 0]
StripLeading(b) ==
    IF \A i \in 1..Len(b) : b[i] = 0 THEN <<>>
    ELSE LET first == CHOOSE i \in 1..Len(b) :
                          b[i] = 1 /\ \A j \in 1..(i - 1) : b[j] = 0
         IN  SubSeq(b, first, Len(b))
\* the value b * 2^e in its canonical form
Canon(b, e) ==
    LET s == StripLeading(b)
    IN  IF s = <<>> THEN [sig |-> <<>>, exp |-> 0]
        ELSE LET last == CHOOSE i \in 1..Len(s) :
                             s[i] = 1 /\ \A j \in (i + 1)..Len(s) : s[j] = 0
             IN  [sig |-> SubSeq(s, 1, last), exp |-> e + Len(s) - last]
RECURSIVE Binary(_)
Binary(n) == IF n = 0 THEN <<>> ELSE Append(Binary(n \div 2), n % 2)
\* the number of an integer
FromInt(n) == Canon(Binary(n), 0)

\* x + y of two sequences of one length n, in n + 1 places: a carry enters
\* place i when a lower place j produces one and the places between pass it on
CarryInto(x, y, i) ==
    \E j \in (i + 1)..Len(x) :
        /\ x[j] + y[j] = 2
        /\ \A k \in (i + 1)..(j - 1) : x[k] + y[k] = 1
AddBits(x, y) ==
    [i \in 1..(Len(x) + 1) |->
        LET c == IF CarryInto(x, y, i - 1) THEN 1 ELSE 0
        IN  IF i = 1 THEN c ELSE (x[i - 1] + y[i - 1] + c) % 2]
\* x - y of two sequences of one length, x >= y: place i lends when a lower
\* place j has x[j] < y[j] and the places between are equal
BorrowFrom(x, y, i) ==
    \E j \in (i + 1)..Len(x) :
        /\ x[j] < y[j]
        /\ \A k \in (i + 1)..(j - 1) : x[k] = y[k]
SubBits(x, y) ==
    [i \in 1..Len(x) |->
        (x[i] - y[i] - (IF BorrowFrom(x, y, i) THEN 1 ELSE 0) + 2) % 2]
\* the bits of a at the exponent e <= a.exp, in n places
Aligned(a, e, n) ==
    LET b == a.sig \o Zeros(IF a.sig = <<>> THEN 0 ELSE a.exp - e)
    IN  Zeros(n - Len(b)) \o b
Places(a, e) == IF a.sig = <<>> THEN 0 ELSE Len(a.sig) + a.exp - e
LowExp(a, b) ==
    IF a.sig = <<>> THEN b.exp
    ELSE IF b.sig = <<>> THEN a.exp
    ELSE IF a.exp < b.exp THEN a.exp ELSE b.exp
Wider(a, b, e) == IF Places(a, e) > Places(b, e) THEN Places(a, e) ELSE Places(b, e)

\* the exact sum and difference (a >= b) of two values
ExactAdd(a, b) ==
    LET e == LowExp(a, b)
        n == Wider(a, b, e)
    IN  Canon(AddBits(Aligned(a, e, n), Aligned(b, e, n)), e)
ExactSub(a, b) ==
    LET e == LowExp(a, b)
        n == Wider(a, b, e)
    IN  Canon(SubBits(Aligned(a, e, n), Aligned(b, e, n)), e)
\* a < b
Less(a, b) ==
    LET e == LowExp(a, b)
        n == Wider(a, b, e)
        x == Aligned(a, e, n)
        y == Aligned(b, e, n)
    IN  \E i \in 1..n : x[i] < y[i] /\ \A j \in 1..(i - 1) : x[j] = y[j]
AtMost(a, b) == a = b \/ Less(a, b)

\* round to nearest, ties to even: keep are the bits kept, rest the bits dropped
RoundUp(keep, rest) ==
    /\ rest[1] = 1
    /\ \/ keep[Len(keep)] = 1
       \/ \E i \in 2..Len(rest) : rest[i] = 1
\* the nearest value of Precision bits to the exact value v
Round(v) ==
    IF Len(v.sig) <= Precision THEN v
    ELSE LET keep == SubSeq(v.sig, 1, Precision)
             rest == SubSeq(v.sig, Precision + 1, Len(v.sig))
             e    == v.exp + Len(rest)
         IN  IF RoundUp(keep, rest)
             THEN Canon(AddBits(keep, Zeros(Precision - 1) \o <<1>>), e)
             ELSE Canon(keep, e)

\* 2^k modulo n, and the bits lo..hi of b, read as a number, modulo n
RECURSIVE Pow2Mod(_, _)
Pow2Mod(k, n) ==
    IF k = 0 THEN 1 % n
    ELSE LET half == Pow2Mod(k \div 2, n)
         IN  (half * half * (IF k % 2 = 1 THEN 2 ELSE 1)) % n
RECURSIVE ModOf(_, _, _, _)
ModOf(b, lo, hi, n) ==
    IF lo > hi THEN 0
    ELSE IF lo = hi THEN b[lo] % n
    ELSE LET mid == (lo + hi) \div 2
         IN  (ModOf(b, lo, mid, n) * Pow2Mod(hi - mid, n) + ModOf(b, mid + 1, hi, n)) % n
\* long division of the bits of b by n: the quotient and the remainder
DivBits(b, n) ==
    [q |-> [i \in 1..Len(b) |->
               IF 2 * ModOf(b, 1, i - 1, n) + b[i] >= n THEN 1 ELSE 0],
     r |-> ModOf(b, 1, Len(b), n)]

\* a + b, a - b (a >= b) and a / n (n a positive integer below 2^8) of JavaScript
NumAdd(a, b) == Round(ExactAdd(a, b))
NumSub(a, b) == Round(ExactSub(a, b))
NumDiv(a, n) ==
    IF a.sig = <<>> THEN a ELSE
    LET extra == Precision + 10
        d     == DivBits(a.sig \o Zeros(extra), n)
        sticky == IF d.r = 0 THEN 0 ELSE 1
    IN  Round(Canon(d.q \o <<sticky>>, a.exp - extra - 1))


(***************************************************************************)
(* The rolling history and getAggregateStats, over measurements that are   *)
(* JavaScript numbers: performance.now() reads tenths of a millisecond     *)
(***************************************************************************)
MaxSamples == 3
ClockTenths == {100, 154}
ClockReadings == {NumDiv(FromInt(t), 10) : t \in ClockTenths}
NumZero == FromInt(0)
NoMetricsNum == [k \in DOMAIN NoMetrics |-> NumZero]
AggregateKeys == {"renderTime", "filterTime", "queryTime", "cacheHitRate",
                  "memoryUsage"}

\* history.reduce((sum, m) => sum + m[key], 0), over the first i snapshots
RECURSIVE ReduceSum(_, _, _)
ReduceSum(history, key, i) ==
    IF i = 0 THEN NumZero
    ELSE NumAdd(ReduceSum(history, key, i - 1), history[i][key])
\* the same sum without rounding
RECURSIVE ExactSum(_, _, _)
ExactSum(history, key, i) ==
    IF i = 0 THEN NumZero
    ELSE ExactAdd(ExactSum(history, key, i - 1), history[i][key])
\* Math.max(...history.map(m => m[key])) and Math.min(...)
MathMax(history, key) ==
    LET i == CHOOSE i \in 1..Len(history) :
                 \A j \in 1..Len(history) : AtMost(history[j][key], history[i][key])
    IN  history[i][key]
MathMin(history, key) ==
    LET i == CHOOSE i \in 1..Len(history) :
                 \A j \in 1..Len(history) : AtMost(history[i][key], history[j][key])
    IN  history[i][key]
getAggregateStats(history) ==
    IF Len(history) = 0 THEN Null
    ELSE [key \in AggregateKeys |->
             [avg |-> NumDiv(ReduceSum(history, key, Len(history)), Len(history)),
              max |-> MathMax(history, key),
              min |-> MathMin(history, key)]]

\* endRenderMeasure closes, at the reading end, a span that startRenderMeasure
\* opened at the reading start; alerts are disabled
RenderMeasured == \E start \in ClockReadings, end \in ClockReadings :
    /\ Less(start, end)
    /\ metrics' = [metrics EXCEPT !.renderTime = NumSub(end, start)]
    /\ historyTimer' = TRUE
    /\ monOp' = [op |-> "endRenderMeasure", open |-> TRUE, duration |-> 0,
                 before |-> alerts]
    /\ UNCHANGED <<monConfig, isMonitoring, perfNow, renderStartTime,
                   filterStartTime, queryStartTime, metricsHistory, alerts>>
    /\ MonitorFrame
\* updateCacheMetrics after a lookup of the orchestrator; alerts are disabled
CacheMeasured == \E hit \in BOOLEAN :
    /\ metrics' = [metrics EXCEPT !.cacheHitRate =
                       FromInt(HitRate(CacheMetric(hit)[1], CacheMetric(hit)[2]))]
    /\ historyTimer' = TRUE
    /\ monOp' = [op |-> "updateCacheMetrics", open |-> FALSE, duration |-> 0,
                 before |-> alerts]
    /\ UNCHANGED <<monConfig, isMonitoring, perfNow, renderStartTime,
                   filterStartTime, queryStartTime, metricsHistory, alerts>>
    /\ MonitorFrame
GetAggregateStats ==
    /\ monOp' = [op |-> "getAggregateStats", open |-> FALSE, duration |-> 0,
                 before |-> alerts, result |-> getAggregateStats(metricsHistory)]
    /\ UNCHANGED <<monConfig, isMonitoring, perfNow, renderStartTime,
                   filterStartTime, queryStartTime, metricsHistory, historyTimer,
                   metrics, alerts>>
    /\ MonitorFrame

InitStats ==
    /\ monConfig = fullConfig([enableMonitoring |-> TRUE, enableAlerts |-> FALSE,
                               sampleSize |-> MaxSamples])
    /\ isMonitoring = TRUE
    /\ perfNow = 1
    /\ renderStartTime = 0
    /\ filterStartTime = 0
    /\ queryStartTime = 0
    /\ metricsHistory = <<>>
    /\ historyTimer = TRUE
    /\ metrics = NoMetricsNum
    /\ alerts = <<>>
    /\ monOp = NoMonOp
    /\ StoreIdle
    /\ HashIdle
    /\ EvalIdle
    /\ HookIdle
    /\ LazyIdle
NextStats ==
    \/ RenderMeasured \/ CacheMeasured \/ HistoryPush \/ ClearHistory
    \/ GetAggregateStats
SpecStats == InitStats /\ [][NextStats]_vars

HistoryBounded(history) == Len(history) <= monConfig.sampleSize
PushDropsOldest ==
    Called("history") =>
        metricsHistory' = IF Len(metricsHistory) = monConfig.sampleSize
                          THEN Append(Tail(metricsHistory), metrics)
                          ELSE Append(metricsHistory, metrics)
SumIsExact(history, key) ==
    ReduceSum(history, key, Len(history)) = ExactSum(history, key, Len(history))
AvgWithin(stat) == AtMost(stat.min, stat.avg) /\ AtMost(stat.avg, stat.max)

\* C24: the rolling history never holds more than sampleSize snapshots, a push
\* onto a full history drops the oldest snapshot and keeps the others in order,
\* and getAggregateStats has no result on an empty history and otherwise
\* min <= max for every metric, with min <= avg <= max whenever the sum of the
\* metric over the history is computed without rounding
RollingHistoryBound ==
    [][/\ HistoryBounded(metricsHistory) /\ HistoryBounded(metricsHistory')
       /\ PushDropsOldest
       /\ Called("getAggregateStats") =>
            IF metricsHistory = <<>> THEN monOp'.result = Null
            ELSE \A key \in AggregateKeys :
                    /\ AtMost(monOp'.result[key].min, monOp'.result[key].max)
                    /\ SumIsExact(metricsHistory, key) =>
                           AvgWithin(monOp'.result[key])]_vars
\* C24 as stated: min <= avg <= max for every metric over a non-empty history
AggregateOrdered ==
    [][/\ HistoryBounded(metricsHistory) /\ HistoryBounded(metricsHistory')
       /\ PushDropsOldest
       /\ Called("getAggregateStats") =>
            IF metricsHistory = <<>> THEN monOp'.result = Null
            ELSE \A key \in AggregateKeys : AvgWithin(monOp'.result[key])]_vars
RollingHistoryBoundWitness ==
    /\ monOp.op = "getAggregateStats"
    /\ Len(metricsHistory) = monConfig.sampleSize
    /\ metricsHistory[1] # NoMetricsNum
    /\ Less(monOp.result.cacheHitRate.min, monOp.result.cacheHitRate.avg)
    /\ Less(monOp.result.cacheHitRate.avg, monOp.result.cacheHitRate.max)


\* the default filter state, field by field
IsDefaultState(f) ==
    /\ Len(Keys(f)) = 14
    /\ Get(f, "dateRange") = Null
    /\ \A k \in {"businessUnitIds", "clientIds", "userIds", "statuses", "countries"} :
           Get(f, k) = Arr(<<>>)
    /\ \A k \in {"budgetRange", "forecastRange", "declaredBudgetRange"} :
           Get(f, k) = Null
    /\ Get(f, "textSearch") = Str(<<>>)
    /\ Get(f, "limit") = Num(100)
    /\ Get(f, "offset") = Num(0)
    /\ Get(f, "orderBy") = Str(last_modified)
    /\ Get(f, "orderDirection") = Str(desc)

\* C25: from any reachable filter state resetFilters produces the default state
\* (so that a second resetFilters changes nothing) and leaves the
\* DataTypeSelection unchanged
ResetRestoresDefault ==
    [][storeOp'.op = "resetFilters" =>
          /\ IsDefaultState(filters')
          /\ resetFilters(filters') = filters'
          /\ dataTypeSelection' = dataTypeSelection]_vars
ResetRestoresDefaultWitness ==
    /\ storeOp.op = "resetFilters"
    /\ storeOp.prev # Num(0)
    /\ IsDefaultState(filters)
    /\ dataTypeSelection # defaultDataTypeSelection


\* the query without the fields whose value is undefined
DefinedFields(q) == Obj(SelectSeq(q.f, LAMBDA p : p[2] # Undefined))

\* C27: a query that carries a field with the value undefined and the same
\* query without that field have the same fingerprint
UndefinedAsAbsent ==
    (hashOut # <<>> /\ DefinedFields(hashA) = DefinedFields(hashB))
        => hashOut[1] = hashOut[2]
UndefinedAsAbsentWitness ==
    /\ hashOut # <<>>
    /\ DefinedFields(hashB) = hashA
    /\ Has(hashB, "offset") /\ ~Has(hashA, "offset")
    /\ Len(Keys(hashA)) >= 2
    /\ hashOut[1] = hashOut[2]


\* the monthly period of a record: the first and the last day of its (year, month)
DaysInMonth(y, m) ==
    IF m = 2 THEN (IF y % 4 = 0 /\ (y % 100 # 0 \/ y % 400 = 0) THEN 29 ELSE 28)
    ELSE IF m \in {4, 6, 9, 11} THEN 30 ELSE 31
PeriodStart(r) == DateV(Get(r, "year").v[1], Get(r, "month").v[1], 1)
PeriodEnd(r) ==
    DateV(Get(r, "year").v[1], Get(r, "month").v[1],
          DaysInMonth(Get(r, "year").v[1], Get(r, "month").v[1]))
PeriodOverlaps(r, dateRange) ==
    /\ ~DateGT(PeriodStart(r), Get(dateRange, "end"))
    /\ ~DateLT(PeriodEnd(r), Get(dateRange, "start"))
OnlyDateRange(q) ==
    /\ Truthy(Get(q, "dateRange"))
    /\ q = buildQuery(Spread(defaultFilters,
                             Obj(<<Prop("dateRange", Get(q, "dateRange"))>>)))

\* C26: with only a date range set, the client-side evaluator accepts a record
\* if and only if the monthly period of the record overlaps [start, end]
DateRangeOverlap ==
    (evalOut.done /\ OnlyDateRange(evalQuery)) =>
        \A i \in 1..Len(evalRows) :
            (Get(evalRows[i], "id") \in IdsOf(evalOut.client))
                <=> PeriodOverlaps(TransformRow(evalRows[i]), Get(evalQuery, "dateRange"))


\* the first refetch() after clearCache(), nothing else having run in between
RefetchAfterClear == returned.how = "clear" /\ refetches' = refetches + 1

\* C29: after clearCache() the cache holds no entry and no key is found in it,
\* and a refetch() that follows with the filters unchanged executes the query
\* of the current filter state again
ClearThenRefetch ==
    [][/\ (returned'.how = "clear" /\ returned.how # "clear") =>
            /\ Len(dataCache') = 0
            /\ ~CacheHas(dataCache', QueryHashOf(Closure(filters', statistics')))
       /\ RefetchAfterClear =>
            /\ returned'.how \in {"await", "local"}
            /\ returned'.query = CurrentQuery]_vars


(***************************************************************************)
(* useFilterStats(totalCount, filteredCount, query)                        *)
(***************************************************************************)
MaxCount == 3
\* typeof x
TypeOf(x) ==
    CASE x.t = "undefined" -> "undefined"
      [] x.t = "num"       -> "number"
      [] x.t = "bool"      -> "boolean"
      [] x.t = "str"       -> "string"
      [] OTHER             -> "object"
\* a faulty variant of InvalidQuery: the guard is missing
InvalidQueryNever(query) == FALSE
\* if (!query || typeof query !== 'object')
InvalidQuery(query) == ~Truthy(query) \/ TypeOf(query) # "object"
\* Object.values(x): the own enumerable property values (the characters of a
\* string, nothing for a number, a boolean or a Date)
ObjectValues(x) ==
    CASE x.t \in {"obj", "arr"} -> [i \in 1..Len(x.f) |-> x.f[i][2]]
      [] x.t = "str"            -> [i \in 1..Len(x.v) |-> Str(<<x.v[i]>>)]
      [] OTHER                  -> <<>>
\* the callback of Object.values(query).filter(...)
IsActiveFilter(value) ==
    IF value.t = "arr" THEN Length(value) > 0
    ELSE IF TypeOf(value) = "object" /\ value # Null
    THEN \E i \in 1..Len(ObjectValues(value)) :
             ObjectValues(value)[i] # Undefined /\ ObjectValues(value)[i] # Null
    ELSE value # Undefined /\ value # Null /\ value # Str(<<>>)
\* a number given in hundredths
Hundredths(h) ==
    IF h % 100 = 0 THEN Num(h \div 100)
    ELSE Val("num", <<h \div 100, h % 100>>, <<>>)
\* Math.round(((part / total) * 100) * 100) / 100 for total > 0
RoundedPercentage(part, total) ==
    Hundredths((2 * part * 10000 + total) \div (2 * total))
useFilterStats(totalCount, filteredCount, query) ==
    IF InvalidQuery(query)
    THEN [threw |-> FALSE,
          value |-> Obj(<<Prop("activeFiltersCount", Num(0)),
                          Prop("efficiency", Num(0)),
                          Prop("filteringRatio", Num(0))>>)]
    ELSE IF query.t \in {"undefined", "null"}
    \* Object.values(null) is a TypeError
    THEN [threw |-> TRUE, value |-> Undefined]
    ELSE LET activeFiltersCount ==
                 Len(SelectSeq(ObjectValues(query), IsActiveFilter))
             efficiency ==
                 IF totalCount > 0 THEN RoundedPercentage(filteredCount, totalCount)
                 ELSE Num(0)
             reductionPercentage ==
                 IF totalCount > 0
                 THEN RoundedPercentage(totalCount - filteredCount, totalCount)
                 ELSE Num(0)
         IN  [threw |-> FALSE,
              value |-> Obj(<<Prop("totalCount", Num(totalCount)),
                              Prop("filteredCount", Num(filteredCount)),
                              Prop("activeFiltersCount", Num(activeFiltersCount)),
                              Prop("efficiency", efficiency),
                              Prop("reductionPercentage", reductionPercentage),
                              Prop("isFiltered", Bool(activeFiltersCount > 0))>>)]

StatsQueries ==
    {Null, Undefined, Num(0), Num(5), Str(<<>>), Str(<<122>>), Bool(TRUE),
     Obj(<<>>), buildQuery(defaultFilters),
     buildQuery(Spread(defaultFilters, Obj(<<Prop("businessUnitIds", Arr(<<Num(1)>>)),
                                             Prop("dateRange", FirstHalfApi)>>)))}
InitFilterStats ==
    /\ statsArgs \in [totalCount : 0..MaxCount, filteredCount : 0..MaxCount,
                      query : StatsQueries]
    /\ statsOut = [called |-> FALSE, threw |-> FALSE, value |-> Undefined]
    /\ evalRows = <<>> /\ evalQuery = Obj(<<>>) /\ evalOut = NoEval
    /\ StoreIdle
    /\ HashIdle
    /\ HookIdle
    /\ SideIdle
UseFilterStats ==
    /\ ~statsOut.called
    /\ LET result == useFilterStats(statsArgs.totalCount, statsArgs.filteredCount,
                                    statsArgs.query)
       IN  statsOut' = [called |-> TRUE, threw |-> result.threw, value |-> result.value]
    /\ UNCHANGED <<statsArgs, evalRows, evalQuery, evalOut, storeVars, hashVars,
                   hookVars, sideVars>>
NextFilterStats == UseFilterStats
SpecFilterStats == InitFilterStats /\ [][NextFilterStats]_vars

\* null, undefined or anything that is no object
NoQueryObject(query) == query.t \notin {"obj", "arr", "date"}

\* C30: for a query that is null, undefined or not an object useFilterStats
\* returns the zeroed default (activeFiltersCount 0, efficiency 0), and it never
\* throws; for a valid query with totalCount = 0 efficiency and
\* reductionPercentage are 0
SafeFilterStats ==
    statsOut.called =>
        /\ ~statsOut.threw
        /\ NoQueryObject(statsArgs.query) =>
               /\ Get(statsOut.value, "activeFiltersCount") = Num(0)
               /\ Get(statsOut.value, "efficiency") = Num(0)
        /\ (~NoQueryObject(statsArgs.query) /\ statsArgs.totalCount = 0) =>
               /\ Get(statsOut.value, "efficiency") = Num(0)
               /\ Get(statsOut.value, "reductionPercentage") = Num(0)
SafeFilterStatsWitness ==
    /\ statsOut.called
    /\ statsArgs.query = Null
    /\ statsArgs.totalCount > 0
    /\ statsArgs.filteredCount > 0
    /\ Get(statsOut.value, "efficiency") = Num(0)


(***************************************************************************)
(* cleanCache on its own: a Map of at most MaxEntries entries, each with   *)
(* its own key, and a maxSize                                              *)
(***************************************************************************)
MaxEntries == 3
CleanCaches ==
    UNION {{[i \in 1..n |-> [key |-> <<ToString(i)>>, data |-> <<>>,
                              timestamp |-> ts[i], statistics |-> Null]] :
                ts \in [1..n -> 0..2]} : n \in 0..MaxEntries}
InitClean ==
    /\ StoreIdle
    /\ HashIdle
    /\ EvalIdle
    /\ SideIdle
    /\ config \in {[enableCache |-> TRUE, enableServerSideFiltering |-> TRUE,
                    maxCacheSize |-> m] : m \in 0..2}
    /\ now = 0
    /\ timers = {}
    /\ lastQueryRef = <<>>
    /\ loading = FALSE
    /\ error = Null
    /\ statistics = Null
    /\ dataCache \in CleanCaches
    /\ inflight = <<>>
    /\ burst = NoBurst
    /\ lastQuery = Undefined
    /\ latestOut = NoOutput
    /\ lastLookup = NoLookup
    /\ returned = NoReturn
    /\ refetches = 0
    /\ observe = "none"
    /\ memoData = <<>>
\* cleanCache(config.maxCacheSize)
CleanCache ==
    /\ returned.how = "none"
    /\ returned' = [NoReturn EXCEPT !.how = "cleanCache", !.data = dataCache]
    /\ dataCache' = cleanCache(dataCache, config.maxCacheSize)
    /\ UNCHANGED <<filters, config, now, timers, lastQueryRef, loading, error,
                   statistics, inflight, burst, lastQuery, latestOut, lastLookup,
                   refetches, observe, memoData>>
    /\ OrchFrame
NextClean == CleanCache
SpecClean == InitClean /\ [][NextClean]_vars

Removed(before, after) ==
    {i \in 1..Len(before) : ~CacheHas(after, before[i].key)}
Retained(before, after) ==
    {i \in 1..Len(before) : CacheHas(after, before[i].key)}

\* C33: whenever cleanCache removes entries, every removed entry is at most as
\* recent as every retained entry, and exactly size - maxSize entries are
\* removed (none when size <= maxSize); the retained entries stay as they were
EvictionOldestFirst ==
    [][/\ \A i \in Removed(dataCache, dataCache'), j \in Retained(dataCache, dataCache') :
              dataCache[i].timestamp <= dataCache[j].timestamp
       /\ Cardinality(Removed(dataCache, dataCache')) =
              IF Len(dataCache) <= config.maxCacheSize THEN 0
              ELSE Len(dataCache) - config.maxCacheSize
       /\ dataCache' = SelectSeq(dataCache, LAMBDA e : CacheHas(dataCache', e.key))]_vars
\* of three entries the newest was inserted first, and it alone was kept
EvictionOldestFirstWitness ==
    /\ returned.how = "cleanCache"
    /\ Len(returned.data) = 3
    /\ config.maxCacheSize = 1
    /\ Len(dataCache) = 1
    /\ dataCache[1].key = <<"1">>
    /\ dataCache[1].timestamp = 2


(***************************************************************************)
(* The date predicate of buildDynamicQuery on ranges of one and of several *)
(* years                                                                   *)
(***************************************************************************)
DateYears  == {2023, 2024, 2025}
DateMonths == {1, 6, 12}
DatedRow(id, y, m) ==
    SetProp(SetProp(Row(id, 1, 500, Bozza), "year", Num(y)), "month", Num(m))
DatedTables ==
    UNION {{[i \in 1..n |-> DatedRow(i, c[i][1], c[i][2])] :
                c \in [1..n -> DateYears \X DateMonths]} : n \in 1..MaxRecords}
ApiRange(s, e) == Obj(<<Prop("start", s), Prop("end", e),
                        Prop("startDate", s), Prop("endDate", e)>>)
DatedQueries ==
    {buildQuery(Spread(defaultFilters, Obj(<<Prop("dateRange",
         ApiRange(DateV(s[1], s[2], 1), DateV(e[1], e[2], 28)))>>))) :
         s \in DateYears \X DateMonths, e \in DateYears \X DateMonths}
InitDates ==
    /\ evalRows \in DatedTables
    /\ evalQuery \in DatedQueries
    /\ evalOut = NoEval
    /\ StatsIdle
    /\ StoreIdle
    /\ HashIdle
    /\ HookIdle
    /\ SideIdle
SpecDates == InitDates /\ [][NextEval]_vars

\* the months since year 0 of a (year, month)
MonthIndex(y, m) == y * 12 + (m - 1)
StartIndex(q) ==
    MonthIndex(Get(Get(q, "dateRange"), "startDate").v[1],
               Get(Get(q, "dateRange"), "startDate").v[2])
EndIndex(q) ==
    MonthIndex(Get(Get(q, "dateRange"), "endDate").v[1],
               Get(Get(q, "dateRange"), "endDate").v[2])
RowIndex(row) == MonthIndex(Get(row, "year").v[1], Get(row, "month").v[1])

\* C38: for a date range whose start month is not after its end month the
\* server path returns exactly the records whose (year, month) lies between
\* the two, inclusive, in calendar order, within one year and across years
ServerDateRange ==
    (evalOut.done /\ StartIndex(evalQuery) <= EndIndex(evalQuery)) =>
        /\ evalOut.ok
        /\ IdsOf(evalOut.server) =
               {Get(evalRows[i], "id") : i \in
                   {j \in 1..Len(evalRows) :
                       /\ StartIndex(evalQuery) <= RowIndex(evalRows[j])
                       /\ RowIndex(evalRows[j]) <= EndIndex(evalQuery)}}
\* a range from 2023 to 2025 selected a record of 2024 and left out one of
\* 2025 after the end month
ServerDateRangeWitness ==
    /\ evalOut.done
    /\ EndIndex(evalQuery) - StartIndex(evalQuery) > 12
    /\ Len(evalRows) = 2
    /\ Get(evalRows[1], "year") = Num(2024)
    /\ RowIndex(evalRows[2]) > EndIndex(evalQuery)
    /\ IdsOf(evalOut.server) = {Num(1)}


(***************************************************************************)
(* The cache and a failed execution                                        *)
(***************************************************************************)
\* an execution leaves its catch block in this step
CatchStep ==
    observe = "return" /\ returned'.how = "catch" /\ Len(inflight') < Len(inflight)
\* an execution leaves its try block after both remote calls in this step
FetchedStep ==
    observe = "return" /\ returned'.how = "return" /\ Len(inflight') < Len(inflight)
\* an entry of `after` that `before` did not hold
Written(before, after) ==
    \E i \in 1..Len(after) : \A j \in 1..Len(before) : before[j] # after[i]

\* C34: an execution whose remote call raises creates, replaces or evicts no
\* cache entry, and an entry is only written by an execution whose fetch
\* succeeded
FailedLeavesCache ==
    [][/\ CatchStep => dataCache' = dataCache
       /\ (observe = "return" /\ Written(dataCache, dataCache')) => FetchedStep]_vars
\* an execution failed while the cache held an entry of its own fingerprint,
\* written by an earlier execution
FailedLeavesCacheWitness ==
    /\ returned.how = "catch"
    /\ error = ErrorMessage
    /\ CacheHas(dataCache, generateQueryHash(returned.query))
    /\ inflight = <<>>


(***************************************************************************)
(* The loading flag and the executions in flight                           *)
(***************************************************************************)
\* the most recently started execution is still awaiting a remote call
NewestPending == \E i \in 1..Len(inflight) : inflight[i].newest

\* C35: loading is true for as long as the most recently started execution
\* has not settled
LoadingUntilSettled == NewestPending => loading


(***************************************************************************)
(* The statistics of a cache entry                                         *)
(***************************************************************************)
\* the entry the execution that returned in this step wrote
WrittenEntry == CacheGet(dataCache', generateQueryHash(returned'.query))

\* C32: the statistics stored in a cache entry are the ones computed by the
\* execution that wrote it, the ones that execution published
CachedStatisticsAreFetched ==
    [][FetchedStep => WrittenEntry.statistics = statistics']_vars


(***************************************************************************)
(* The data output after a fetch                                           *)
(***************************************************************************)
\* C31: once a server-side execution for the current fingerprint has returned
\* and written its result to the cache, the data output is the fetched
\* record set, the data of that cache entry
DataFollowsFetch ==
    [][(FetchedStep /\ generateQueryHash(returned'.query) = generateQueryHash(CurrentQuery))
           => memoData' = WrittenEntry.data]_vars


(***************************************************************************)
(* executeFiltering and the monitor: the calls one execution makes, in     *)
(* their order, with the clock running between them                        *)
(***************************************************************************)
\* no execution is between its first and its last call of the monitor
Settled ==
    \/ monOp.op \in {"none", "endFilterMeasure"}
    \/ monOp.op = "updateCacheMetrics" /\ monOp.hits = 1
\* the execution has recorded its miss
Missed == monOp.op = "updateCacheMetrics" /\ monOp.hits = 0

\* the cache holds a fresh entry: updateCacheMetrics(1, 1), and the return
ExecuteHit ==
    /\ Settled
    /\ UpdateCacheMetrics
    /\ <<monOp'.hits, monOp'.total>> = CacheMetric(TRUE)
\* no fresh entry: updateCacheMetrics(0, 1)
ExecuteMiss ==
    /\ Settled
    /\ UpdateCacheMetrics
    /\ <<monOp'.hits, monOp'.total>> = CacheMetric(FALSE)
ExecuteStartFilter == Missed /\ StartFilterMeasure
ExecuteStartQuery  == monOp.op = "startFilterMeasure" /\ StartQueryMeasure
\* both remote calls have resolved: endQueryMeasure()
ExecuteEndQuery    == monOp.op = "startQueryMeasure" /\ EndQueryMeasure
\* endFilterMeasure(result.totalCount, result.count), the end of the try block
ExecuteEndFilter   == monOp.op = "endQueryMeasure" /\ EndFilterMeasure
\* a remote call has raised: the catch block calls endFilterMeasure alone
ExecuteCatch       == monOp.op = "startQueryMeasure" /\ EndFilterMeasure

\* the monitor as useFilteredData configures it: { enableMonitoring }
InitExecute ==
    /\ monConfig \in {fullConfig([enableMonitoring |-> m]) : m \in BOOLEAN}
    /\ Mounted
    /\ StoreIdle
    /\ HashIdle
    /\ EvalIdle
    /\ HookIdle
    /\ LazyIdle
NextExecute ==
    \/ PerfTick \/ ExecuteHit \/ ExecuteMiss \/ ExecuteStartFilter
    \/ ExecuteStartQuery \/ ExecuteEndQuery \/ ExecuteEndFilter \/ ExecuteCatch
SpecExecute == InitExecute /\ [][NextExecute]_vars

\* C36: every span an execution has opened is closed when the execution has
\* settled, on the success path and on the remote-failure path
SpansClosed ==
    (isMonitoring /\ Settled) => (filterStartTime = 0 /\ queryStartTime = 0)

LastAlert(list) == list[Len(list)]
\* C37: with monitoring and alerts enabled and a cacheHitRate threshold above
\* 0, the miss of an execution appends exactly one cacheHitRate warning of
\* value 0, a hit appends none, and no other call of the execution appends a
\* cacheHitRate alert
MissAlertsOnce ==
    [][(isMonitoring /\ monConfig.enableAlerts /\ monConfig.cacheHitRate > 0) =>
          /\ (Called("updateCacheMetrics") /\ monOp'.hits = 0) =>
                 alerts' = Append(Slice(alerts, AlertsKept),
                                  Warning("cacheHitRate", 0, monConfig.cacheHitRate))
          /\ (Called("updateCacheMetrics") /\ monOp'.hits = 1) => alerts' = alerts
          /\ (~Called("updateCacheMetrics") /\ alerts' # alerts) =>
                 LastAlert(alerts').metric # "cacheHitRate"]_vars
\* an execution missed after an earlier one had hit and a third had failed:
\* the alert of the miss is the last of the list
MissAlertsOnceWitness ==
    /\ isMonitoring
    /\ Missed
    /\ Len(monOp.before) >= 2
    /\ queryStartTime # 0
    /\ alerts = Append(monOp.before, Warning("cacheHitRate", 0, 70))

====
